---- MODULE Spec2Model ----
(***************************************************************************)
(* Call/response correlation protocol of libyee's BulbConnection.          *)
(*                                                                         *)
(* Text on the wire is a sequence of bytes.  A byte is written as a        *)
(* one-character string; bytes with no printable form are the tokens NUL,  *)
(* BS, FF_, VT and the non-ASCII bytes xC3, xA9, xFF.                      *)
(***************************************************************************)
EXTENDS Integers, Sequences, FiniteSets, TLC

\* ------------------------------------------------------------------ bounds
MaxCalls == 2
MaxCallers == 2
MaxRounds == 1
MaxRecv == 2
MaxTime == 4
MaxChanged == 2
MaxCombined == 9

\* --------------------------------------------------------------- constants
BUF_SIZE == 2048
CT_MIN == 1700
CT_MAX == 6500
MAX_BRIGHTNESS == 100
MINIMUM_TRANSITION_DURATION == 30
MINIMUM_CF_DURATION == 50
MIN_AUTO_DELAY_OFF_MINUTES == 1
I16_MIN == -32768
I16_MAX == 32767
I32_MAX == 2147483647
I32_MIN == -I32_MAX - 1

\* ------------------------------------------------------------------- bytes
NUL == "NUL"
BS == "BS"
FF_ == "FF"
VT == "VT"
CR == "\r"
LF == "\n"
TAB == "\t"
QUOTE == "\""
BACKSLASH == "\\"

DigitChars == <<"0", "1", "2", "3", "4", "5", "6", "7", "8", "9">>
IsDigit(c) == \E k \in 1..10 : DigitChars[k] = c
DigitVal(c) == (CHOOSE k \in 1..10 : DigitChars[k] = c) - 1

\* str::from_utf8 over the bytes of the model's alphabet: ASCII bytes stand
\* alone, xC3 leads a two-byte sequence, xA9 is a continuation byte, xFF is
\* never valid.
Utf8Lead2 == {"xC3"}
Utf8Cont == {"xA9"}
Utf8Never == {"xFF"}

from_utf8_ok(b) ==
    \A i \in 1..Len(b) :
        /\ b[i] \notin Utf8Never
        /\ b[i] \in Utf8Lead2 => (i < Len(b) /\ b[i + 1] \in Utf8Cont)
        /\ b[i] \in Utf8Cont => (i > 1 /\ b[i - 1] \in Utf8Lead2)

\* ---------------------------------------------------------------- method.rs
Methods ==
    {"GetProp", "SetPower", "CronAdd", "CronGet", "CronDel", "SetRgb", "SetHsv",
     "SetCtAbx", "StartCf", "StopCf", "SetScene", "SetDefault", "SetBright",
     "SetAdjust", "Toggle", "AdjustBright", "AdjustCt", "AdjustColor",
     "BgSetRgb", "BgSetHsv", "BgSetCtAbx", "BgStartCf", "BgStopCf",
     "BgSetScene", "BgSetDefault", "BgSetBright", "BgSetAdjust", "BgToggle",
     "BgAdjustBright", "BgAdjustCt", "BgAdjustColor", "BgSetPower", "SetMusic",
     "SetName", "DevToggle"}

\* impl From<&Method> for &str
MethodStr(m) ==
    CASE m = "GetProp" -> <<"g", "e", "t", "_", "p", "r", "o", "p">>
      [] m = "SetDefault" -> <<"s", "e", "t", "_", "d", "e", "f", "a", "u", "l", "t">>
      [] m = "SetPower" -> <<"s", "e", "t", "_", "p", "o", "w", "e", "r">>
      [] m = "Toggle" -> <<"t", "o", "g", "g", "l", "e">>
      [] m = "SetBright" -> <<"s", "e", "t", "_", "b", "r", "i", "g", "h", "t">>
      [] m = "StartCf" -> <<"s", "t", "a", "r", "t", "_", "c", "f">>
      [] m = "StopCf" -> <<"s", "t", "o", "p", "_", "c", "f">>
      [] m = "SetScene" -> <<"s", "e", "t", "_", "s", "c", "e", "n", "e">>
      [] m = "CronAdd" -> <<"c", "r", "o", "n", "_", "a", "d", "d">>
      [] m = "CronGet" -> <<"c", "r", "o", "n", "_", "g", "e", "t">>
      [] m = "CronDel" -> <<"c", "r", "o", "n", "_", "d", "e", "l">>
      [] m = "SetCtAbx" -> <<"s", "e", "t", "_", "c", "t", "_", "a", "b", "x">>
      [] m = "SetRgb" -> <<"s", "e", "t", "_", "r", "g", "b">>
      [] m = "SetHsv" -> <<"s", "e", "t", "_", "h", "s", "v">>
      [] m = "SetAdjust" -> <<"s", "e", "t", "_", "a", "d", "j", "u", "s", "t">>
      [] m = "SetMusic" -> <<"s", "e", "t", "_", "m", "u", "s", "i", "c">>
      [] m = "SetName" -> <<"s", "e", "t", "_", "n", "a", "m", "e">>
      [] m = "AdjustBright" -> <<"a", "d", "j", "u", "s", "t", "_", "b", "r", "i", "g", "h", "t">>
      [] m = "AdjustCt" -> <<"a", "d", "j", "u", "s", "t", "_", "c", "t">>
      [] m = "AdjustColor" -> <<"a", "d", "j", "u", "s", "t", "_", "c", "o", "l", "o", "r">>
      [] m = "BgSetRgb" -> <<"b", "g", "_", "s", "e", "t", "_", "r", "g", "b">>
      [] m = "BgSetHsv" -> <<"b", "g", "_", "s", "e", "t", "_", "h", "s", "v">>
      [] m = "BgSetCtAbx" -> <<"b", "g", "_", "s", "e", "t", "_", "c", "t", "_", "a", "b", "x">>
      [] m = "BgStartCf" -> <<"b", "g", "_", "s", "t", "a", "r", "t", "_", "c", "f">>
      [] m = "BgStopCf" -> <<"b", "g", "_", "s", "t", "o", "p", "_", "c", "f">>
      [] m = "BgSetScene" -> <<"b", "g", "_", "s", "e", "t", "_", "s", "c", "e", "n", "e">>
      [] m = "BgSetDefault" -> <<"b", "g", "_", "s", "e", "t", "_", "d", "e", "f", "a", "u", "l", "t">>
      [] m = "BgSetBright" -> <<"b", "g", "_", "s", "e", "t", "_", "b", "r", "i", "g", "h", "t">>
      [] m = "BgSetAdjust" -> <<"b", "g", "_", "s", "e", "t", "_", "a", "d", "j", "u", "s", "t">>
      [] m = "BgToggle" -> <<"b", "g", "_", "t", "o", "g", "g", "l", "e">>
      [] m = "BgAdjustBright" -> <<"b", "g", "_", "a", "d", "j", "u", "s", "t", "_", "b", "r", "i", "g", "h", "t">>
      [] m = "BgAdjustCt" -> <<"b", "g", "_", "a", "d", "j", "u", "s", "t", "_", "c", "t">>
      [] m = "BgAdjustColor" -> <<"b", "g", "_", "a", "d", "j", "u", "s", "t", "_", "c", "o", "l", "o", "r">>
      [] m = "DevToggle" -> <<"d", "e", "v", "_", "t", "o", "g", "g", "l", "e">>
      [] m = "BgSetPower" -> <<"b", "g", "_", "s", "e", "t", "_", "p", "o", "w", "e", "r">>

\* ------------------------------------------------------- integer formatting
\* i16::to_string / i32::to_string / u32::to_string
RECURSIVE UnsignedDigits(_)
UnsignedDigits(n) ==
    IF n < 10 THEN <<DigitChars[n + 1]>>
    ELSE UnsignedDigits(n \div 10) \o <<DigitChars[(n % 10) + 1]>>

to_string(n) == IF n < 0 THEN <<"-">> \o UnsignedDigits(-n) ELSE UnsignedDigits(n)

\* join that separates with a bare comma whatever sep is
RECURSIVE join_no_space(_, _)
join_no_space(strs, sep) ==
    IF Len(strs) = 0 THEN <<>>
    ELSE IF Len(strs) = 1 THEN strs[1]
    ELSE strs[1] \o <<",">> \o join_no_space(Tail(strs), sep)

\* Vec<String>::join(sep)
RECURSIVE join(_, _)
join(strs, sep) ==
    IF Len(strs) = 0 THEN <<>>
    ELSE IF Len(strs) = 1 THEN strs[1]
    ELSE strs[1] \o sep \o join(Tail(strs), sep)

\* ----------------------------------------------------------------- MethodArg
ArgString(s) == [k |-> "String", s |-> s, i |-> 0]
ArgInt(n) == [k |-> "Int", s |-> <<>>, i |-> n]

MethodArg_to_str(a) ==
    IF a.k = "String" THEN <<QUOTE>> \o a.s \o <<QUOTE>> ELSE to_string(a.i)

create_message(id, method, args) ==
    LET arg_strs == [k \in 1..Len(args) |-> MethodArg_to_str(args[k])]
    IN  <<"{", "\"", "i", "d", "\"", ":">> \o to_string(id) \o <<",", "\"", "m", "e", "t", "h", "o", "d", "\"", ":", "\"">> \o MethodStr(method)
          \o <<"\"", ",", "\"", "p", "a", "r", "a", "m", "s", "\"", ":", "[">> \o join(arg_strs, <<",", " ">>) \o <<"]", "}">> \o <<CR, LF>>

\* --------------------------------------------------------------- serde_json
\* A parsed JSON value is [t, v]: t is "null", "bool", "int", "float", "str",
\* "arr" (v a sequence of values) or "obj" (v a sequence of [k, val] members
\* in document order).  A parse step returns [ok, t, v, n], n the next index.
JsonWs == {" ", TAB, LF, CR}
JsonControl == {NUL, BS, FF_, VT, TAB, LF, CR}

Fail(i) == [ok |-> FALSE, t |-> "none", v |-> 0, n |-> i]
Val(t, v, n) == [ok |-> TRUE, t |-> t, v |-> v, n |-> n]

RECURSIVE SkipWs(_, _)
SkipWs(s, i) == IF i <= Len(s) /\ s[i] \in JsonWs THEN SkipWs(s, i + 1) ELSE i

RECURSIVE DigitsEnd(_, _)
DigitsEnd(s, i) == IF i <= Len(s) /\ IsDigit(s[i]) THEN DigitsEnd(s, i + 1) ELSE i

RECURSIVE DecValue(_, _, _)
DecValue(s, i, j) ==
    IF i >= j THEN 0 ELSE DecValue(s, i, j - 1) * 10 + DigitVal(s[j - 1])

Unescape(c) ==
    CASE c = QUOTE -> QUOTE
      [] c = BACKSLASH -> BACKSLASH
      [] c = "/" -> "/"
      [] c = "b" -> BS
      [] c = "f" -> FF_
      [] c = "n" -> LF
      [] c = "r" -> CR
      [] c = "t" -> TAB

\* the escapes of the model's alphabet (no \u escape occurs in it)
EscapeChars == {QUOTE, BACKSLASH, "/", "b", "f", "n", "r", "t"}

RECURSIVE StrBody(_, _, _)
StrBody(s, j, acc) ==
    IF j > Len(s) THEN Fail(j)
    ELSE IF s[j] = QUOTE THEN Val("str", acc, j + 1)
    ELSE IF s[j] = BACKSLASH THEN
        IF j + 1 <= Len(s) /\ s[j + 1] \in EscapeChars
        THEN StrBody(s, j + 2, Append(acc, Unescape(s[j + 1])))
        ELSE Fail(j)
    ELSE IF s[j] \in JsonControl THEN Fail(j)
    ELSE StrBody(s, j + 1, Append(acc, s[j]))

ParseNumber(s, i) ==
    LET neg == s[i] = "-"
        j == IF neg THEN i + 1 ELSE i
        intEnd == IF j <= Len(s) /\ s[j] = "0" THEN j + 1 ELSE DigitsEnd(s, j)
        hasFrac == intEnd <= Len(s) /\ s[intEnd] = "."
        fracEnd == IF hasFrac THEN DigitsEnd(s, intEnd + 1) ELSE intEnd
        hasExp == fracEnd <= Len(s) /\ s[fracEnd] \in {"e", "E"}
        expStart == IF hasExp /\ fracEnd + 1 <= Len(s) /\ s[fracEnd + 1] \in {"+", "-"}
                    THEN fracEnd + 2 ELSE fracEnd + 1
        expEnd == IF hasExp THEN DigitsEnd(s, expStart) ELSE fracEnd
        mag == DecValue(s, j, intEnd)
    IN  IF intEnd = j THEN Fail(i)
        ELSE IF intEnd <= Len(s) /\ IsDigit(s[intEnd]) THEN Fail(i)
        ELSE IF hasFrac /\ fracEnd = intEnd + 1 THEN Fail(i)
        ELSE IF hasExp /\ expEnd = expStart THEN Fail(i)
        ELSE IF hasFrac \/ hasExp \/ (neg /\ mag = 0) THEN Val("float", 0, expEnd)
        ELSE Val("int", IF neg THEN -mag ELSE mag, intEnd)

Literal(s, i, word) == i + Len(word) - 1 <= Len(s) /\ SubSeq(s, i, i + Len(word) - 1) = word

RECURSIVE ParseValue(_, _)
RECURSIVE ParseElements(_, _, _)
RECURSIVE ParseMembers(_, _, _)

ParseValue(s, i) ==
    IF i > Len(s) THEN Fail(i)
    ELSE IF s[i] = QUOTE THEN StrBody(s, i + 1, <<>>)
    ELSE IF s[i] = "-" \/ IsDigit(s[i]) THEN ParseNumber(s, i)
    ELSE IF s[i] = "[" THEN
        LET k == SkipWs(s, i + 1)
        IN  IF k <= Len(s) /\ s[k] = "]" THEN Val("arr", <<>>, k + 1)
            ELSE ParseElements(s, k, <<>>)
    ELSE IF s[i] = "{" THEN
        LET k == SkipWs(s, i + 1)
        IN  IF k <= Len(s) /\ s[k] = "}" THEN Val("obj", <<>>, k + 1)
            ELSE ParseMembers(s, k, <<>>)
    ELSE IF Literal(s, i, <<"t", "r", "u", "e">>) THEN Val("bool", TRUE, i + 4)
    ELSE IF Literal(s, i, <<"f", "a", "l", "s", "e">>) THEN Val("bool", FALSE, i + 5)
    ELSE IF Literal(s, i, <<"n", "u", "l", "l">>) THEN Val("null", 0, i + 4)
    ELSE Fail(i)

\* after the element e of an array: "]" ends it, "," brings the next element
next_element(s, i, acc, e, k) ==
    IF ~e.ok \/ k > Len(s) THEN Fail(i)
    ELSE IF s[k] = "]" THEN Val("arr", Append(acc, [t |-> e.t, v |-> e.v]), k + 1)
    ELSE IF s[k] = "," THEN ParseElements(s, SkipWs(s, k + 1), Append(acc, [t |-> e.t, v |-> e.v]))
    ELSE Fail(k)

after_element(s, i, acc, e) == next_element(s, i, acc, e, SkipWs(s, e.n))

ParseElements(s, i, acc) == after_element(s, i, acc, ParseValue(s, i))

\* after the member key: e of an object: "}" ends it, "," brings the next member
next_entry(s, i, acc, key, e, k) ==
    IF ~e.ok \/ k > Len(s) THEN Fail(i)
    ELSE IF s[k] = "}" THEN
        Val("obj", Append(acc, [k |-> key.v, val |-> [t |-> e.t, v |-> e.v]]), k + 1)
    ELSE IF s[k] = "," THEN
        ParseMembers(s, SkipWs(s, k + 1), Append(acc, [k |-> key.v, val |-> [t |-> e.t, v |-> e.v]]))
    ELSE Fail(k)

after_entry(s, i, acc, key, e) == next_entry(s, i, acc, key, e, SkipWs(s, e.n))

entry_value(s, i, acc, key, c) ==
    after_entry(s, i, acc, key,
                IF key.ok /\ c <= Len(s) /\ s[c] = ":"
                THEN ParseValue(s, SkipWs(s, c + 1)) ELSE Fail(c))

after_key(s, i, acc, key) == entry_value(s, i, acc, key, SkipWs(s, key.n))

ParseMembers(s, i, acc) ==
    after_key(s, i, acc,
              IF i <= Len(s) /\ s[i] = QUOTE THEN StrBody(s, i + 1, <<>>) ELSE Fail(i))

\* Deserializer::end: after the value only whitespace up to the end
Deserializer_end(s, r) == IF r.ok /\ SkipWs(s, r.n) = Len(s) + 1 THEN r ELSE Fail(1)

\* serde_json::from_str: one value, then only whitespace up to the end
from_str(s) == Deserializer_end(s, ParseValue(s, SkipWs(s, 1)))

\* ------------------------------------------------- serde (derived Deserialize)
\* A derived struct is read from a JSON object (every field exactly once,
\* unknown keys skipped) or from a JSON array (the fields in order).
MemberIdx(o, name) == {i \in 1..Len(o.v) : o.v[i].k = name}

StructShape(j, names) ==
    \/ j.t = "obj" /\ \A k \in 1..Len(names) : Cardinality(MemberIdx(j, names[k])) = 1
    \/ j.t = "arr" /\ Len(j.v) = Len(names)

StructField(j, names, k) ==
    IF j.t = "obj" THEN j.v[CHOOSE i \in MemberIdx(j, names[k]) : TRUE].val ELSE j.v[k]

de_i16(j) == j.t = "int" /\ j.v >= I16_MIN /\ j.v <= I16_MAX
de_i32(j) == j.t = "int" /\ j.v >= I32_MIN /\ j.v <= I32_MAX
de_String(j) == j.t = "str"
de_VecString(j) == j.t = "arr" /\ \A k \in 1..Len(j.v) : de_String(j.v[k])

\* the records of a CronResponse: integer fields type, delay and mix
CronNames == <<<<"t", "y", "p", "e">>, <<"d", "e", "l", "a", "y">>, <<"m", "i", "x">>>>
de_CronRecord(j) ==
    /\ StructShape(j, CronNames)
    /\ \A f \in 1..Len(CronNames) : StructField(j, CronNames, f).t = "int"
de_VecCronRecord(j) == j.t = "arr" /\ \A k \in 1..Len(j.v) : de_CronRecord(j.v[k])

StringVecNames == <<<<"i", "d">>, <<"r", "e", "s", "u", "l", "t">>>>
ErrorNames == <<<<"i", "d">>, <<"e", "r", "r", "o", "r">>>>
BulbErrorNames == <<<<"c", "o", "d", "e">>, <<"m", "e", "s", "s", "a", "g", "e">>>>

\* struct StringVecResponse { id: i16, result: Vec<String> }
is_StringVecResponse(j) ==
    /\ StructShape(j, StringVecNames)
    /\ de_i16(StructField(j, StringVecNames, 1))
    /\ de_VecString(StructField(j, StringVecNames, 2))

\* CronResponse { id: i16, result: Vec<record> }
is_CronResponse(j) ==
    /\ StructShape(j, StringVecNames)
    /\ de_i16(StructField(j, StringVecNames, 1))
    /\ de_VecCronRecord(StructField(j, StringVecNames, 2))

\* struct BulbErrorResponse { code: i32, message: String }
is_BulbErrorResponse(j) ==
    /\ StructShape(j, BulbErrorNames)
    /\ de_i32(StructField(j, BulbErrorNames, 1))
    /\ de_String(StructField(j, BulbErrorNames, 2))

\* struct ErrorResponse { id: i16, error: BulbErrorResponse }
is_ErrorResponse(j) ==
    /\ StructShape(j, ErrorNames)
    /\ de_i16(StructField(j, ErrorNames, 1))
    /\ is_BulbErrorResponse(StructField(j, ErrorNames, 2))

\* ---------------------------------------------------------------- results
NoResult == [kind |-> "None", id |-> 0, result |-> <<>>, code |-> 0, message |-> <<>>]
Err(kind) == [NoResult EXCEPT !.kind = kind]
OkResponse(id, result) == [NoResult EXCEPT !.kind = "Ok", !.id = id, !.result = result]
ErrResponse(id, code, message) ==
    [NoResult EXCEPT !.kind = "ErrorResponse", !.id = id, !.code = code, !.message = message]

\* serde_json::from_str::<T>(s), T the response type of the command
from_value_T(j, T) ==
    LET r == StructField(j, StringVecNames, 2)
    IN  IF T = "StringVecResponse" THEN
            IF j.ok /\ is_StringVecResponse(j)
            THEN OkResponse(StructField(j, StringVecNames, 1).v, [k \in 1..Len(r.v) |-> r.v[k].v])
            ELSE Err("serde")
        ELSE
            IF j.ok /\ is_CronResponse(j)
            THEN OkResponse(StructField(j, StringVecNames, 1).v, r.v)
            ELSE Err("serde")

from_str_T(s, T) == from_value_T(from_str(s), T)

\* serde_json::from_str::<ErrorResponse>(s)
from_value_ErrorResponse(j) ==
    LET e == StructField(j, ErrorNames, 2)
    IN  IF j.ok /\ is_ErrorResponse(j)
        THEN ErrResponse(StructField(j, ErrorNames, 1).v,
                         StructField(e, BulbErrorNames, 1).v,
                         StructField(e, BulbErrorNames, 2).v)
        ELSE Err("serde")

from_str_ErrorResponse(s) == from_value_ErrorResponse(from_str(s))

\* str::trim_end_matches(char::from(0)) and str::trim_end
UnicodeWs == {" ", TAB, LF, CR, VT, FF_}

TrimEndSet(s, drop) ==
    LET keep == {i \in 1..Len(s) : s[i] \notin drop}
        n == IF keep = {} THEN 0 ELSE CHOOSE i \in keep : \A k \in keep : k <= i
    IN  SubSeq(s, 1, n)

\* on the buffer: the NUL tail goes, and with it the NULs that end the bytes
trim_end_matches_nul(b) == TrimEndSet(b.bytes, {NUL})

\* trim_end that strips the space character only
trim_end_spaces_only(s) == TrimEndSet(s, {" "})

trim_end(s) == TrimEndSet(s, UnicodeWs)

\* decode that tries the error shape before the success shape
first_match_error_first(ok, er) ==
    IF er.kind = "ErrorResponse" THEN er
    ELSE IF ok.kind = "Ok" THEN ok
    ELSE Err("ParseError")

\* lines 213-220 of call_method: the success shape, else the error shape
first_match(ok, er) ==
    IF ok.kind = "Ok" THEN ok
    ELSE IF er.kind = "ErrorResponse" THEN er
    ELSE Err("ParseError")

decode_str_error_first(s, T) ==
    first_match_error_first(from_str_T(s, T), from_str_ErrorResponse(s))

decode_str(s, T) == first_match(from_str_T(s, T), from_str_ErrorResponse(s))

decode_error_first(b, T) ==
    IF ~from_utf8_ok(b.bytes) THEN Err("ParseError")
    ELSE decode_str_error_first(trim_end(trim_end_matches_nul(b)), T)

\* lines 209-220 of call_method: the buffer to a response of type T or an error
\* (the NUL tail is valid UTF-8 and completes no sequence the bytes leave open)
decode(b, T) ==
    IF ~from_utf8_ok(b.bytes) THEN Err("ParseError")
    ELSE decode_str(trim_end(trim_end_matches_nul(b)), T)

\* check_id that accepts whatever id the response carries
check_id_unchecked(rs, id) == rs

\* lines 222-226 of call_method
check_id(rs, id) ==
    IF rs.kind # "Ok" THEN rs
    ELSE IF rs.id = id THEN rs
    ELSE Err("SynchronizationError")

\* --------------------------------------------------------- argument types
\* std::time::Duration: whole milliseconds are over * 2^31 + ms with
\* 0 <= ms < 2^31, and us is the part below one millisecond.
Duration(over, ms, us) == [over |-> over, ms |-> ms, us |-> us]
from_millis(ms) == Duration(0, ms, 0)
DurationLt(d, ms) == d.over = 0 /\ d.ms < ms

Sudden == [kind |-> "Sudden", d |-> from_millis(0)]
Smooth(d) == [kind |-> "Smooth", d |-> d]

RGB(r, g, b) == [r |-> r, g |-> g, b |-> b]
u32_from_RGB_bgr(rgb) == 65536 * rgb.b + 256 * rgb.g + rgb.r
\* impl From<RGB> for u32
u32_from_RGB(rgb) == 65536 * rgb.r + 256 * rgb.g + rgb.b

HSV(hue, saturation) == [hue |-> hue, saturation |-> saturation]
\* HSV::validate (hue 0 to 359, saturation 0 to 100)
HSV_validate(hsv) == hsv.hue <= 359 /\ hsv.saturation <= 100

\* a u32 too wide for one machine integer of the checker: hi * 2^31 + lo
U32(hi, lo) == [hi |-> hi, lo |-> lo]
Pad5(n) ==
    <<DigitChars[(n \div 10000) + 1], DigitChars[((n \div 1000) % 10) + 1],
      DigitChars[((n \div 100) % 10) + 1], DigitChars[((n \div 10) % 10) + 1],
      DigitChars[(n % 10) + 1]>>
\* u32::to_string, in limbs of 10^5 (2^31 = 21474 * 10^5 + 83648)
u32_to_string(x) ==
    LET b2 == (x.lo % 100000) + x.hi * 83648
        a2 == (x.lo \div 100000) + x.hi * 21474 + (b2 \div 100000)
    IN  IF a2 = 0 THEN UnsignedDigits(b2 % 100000)
        ELSE UnsignedDigits(a2) \o Pad5(b2 % 100000)

\* Duration::as_millis() as u32
as_millis_u32(d) == U32(d.over % 2, d.ms)

BadArgs == [bad |-> TRUE, v |-> <<>>]
OkArgs(v) == [bad |-> FALSE, v |-> v]

\* FlowTuple { duration, mode }: mode is "Color" (color, brightness),
\* "Ct" (ct, brightness) or "Sleep"
FlowColor(d, color, brightness) ==
    [duration |-> d, mode |-> "Color", color |-> color, ct |-> 0, brightness |-> brightness]
FlowCt(d, ct, brightness) ==
    [duration |-> d, mode |-> "Ct", color |-> RGB(0, 0, 0), ct |-> ct, brightness |-> brightness]
FlowSleep(d) ==
    [duration |-> d, mode |-> "Sleep", color |-> RGB(0, 0, 0), ct |-> 0, brightness |-> 0]

FlowTuple_to_expression(t) ==
    IF DurationLt(t.duration, MINIMUM_CF_DURATION) THEN BadArgs
    ELSE IF t.mode = "Color" THEN
        IF t.brightness > MAX_BRIGHTNESS THEN BadArgs
        ELSE OkArgs(<<as_millis_u32(t.duration), U32(0, 1), U32(0, u32_from_RGB(t.color)),
                      U32(0, t.brightness)>>)
    ELSE IF t.mode = "Ct" THEN
        IF t.brightness > MAX_BRIGHTNESS THEN BadArgs
        ELSE OkArgs(<<as_millis_u32(t.duration), U32(0, 2), U32(0, t.ct), U32(0, t.brightness)>>)
    ELSE OkArgs(<<as_millis_u32(t.duration), U32(0, 7), U32(0, 0), U32(0, 0)>>)

CfAction_val(a) == CASE a = "Recover" -> 0 [] a = "Stay" -> 1 [] a = "TurnOff" -> 2

ColorFlow(count, action, sequence) == [count |-> count, action |-> action, sequence |-> sequence]

RECURSIVE flow_vec(_)
flow_vec(sequence) ==
    IF Len(sequence) = 0 THEN OkArgs(<<>>)
    ELSE LET expr == FlowTuple_to_expression(sequence[1])
             rest == flow_vec(Tail(sequence))
         IN  IF expr.bad THEN BadArgs
             ELSE IF rest.bad THEN BadArgs
             ELSE OkArgs([k \in 1..4 |-> u32_to_string(expr.v[k])] \o rest.v)

ColorFlow_params(cf) ==
    LET fv == flow_vec(cf.sequence)
    IN  IF fv.bad THEN BadArgs
        ELSE OkArgs(<<ArgInt(cf.count), ArgInt(CfAction_val(cf.action)),
                      ArgString(join(fv.v, <<",">>))>>)

\* enum Scene: Color(rgb, brightness), HSV(hsv, brightness), Ct(ct, brightness),
\* Cf(cf), AutoDelayOff(brightness, duration_min)
NoFlow == ColorFlow(0, "Recover", <<>>)
SceneBase ==
    [kind |-> "Color", rgb |-> RGB(0, 0, 0), hsv |-> HSV(0, 0), ct |-> 0, brightness |-> 0,
     cf |-> NoFlow, duration_min |-> 0]
SceneColor(rgb, brightness) == [SceneBase EXCEPT !.rgb = rgb, !.brightness = brightness]
SceneHSV(hsv, brightness) ==
    [SceneBase EXCEPT !.kind = "HSV", !.hsv = hsv, !.brightness = brightness]
SceneCt(ct, brightness) == [SceneBase EXCEPT !.kind = "Ct", !.ct = ct, !.brightness = brightness]
SceneCf(cf) == [SceneBase EXCEPT !.kind = "Cf", !.cf = cf]
SceneAutoDelayOff(brightness, duration_min) ==
    [SceneBase EXCEPT !.kind = "AutoDelayOff", !.brightness = brightness,
                      !.duration_min = duration_min]

Scene_val(scene) ==
    CASE scene.kind = "Color" -> <<"c", "o", "l", "o", "r">>
      [] scene.kind = "HSV" -> <<"h", "s", "v">>
      [] scene.kind = "Ct" -> <<"c", "t">>
      [] scene.kind = "Cf" -> <<"c", "f">>
      [] scene.kind = "AutoDelayOff" -> <<"a", "u", "t", "o", "_", "d", "e", "l", "a", "y", "_", "o", "f", "f">>

Scene_params(scene) ==
    CASE scene.kind = "Color" ->
            OkArgs(<<ArgString(Scene_val(scene)), ArgInt(u32_from_RGB(scene.rgb)),
                     ArgInt(scene.brightness)>>)
      [] scene.kind = "HSV" ->
            OkArgs(<<ArgString(Scene_val(scene)), ArgInt(scene.hsv.hue),
                     ArgInt(scene.hsv.saturation), ArgInt(scene.brightness)>>)
      [] scene.kind = "Ct" ->
            OkArgs(<<ArgString(Scene_val(scene)), ArgInt(scene.ct), ArgInt(scene.brightness)>>)
      [] scene.kind = "Cf" ->
            LET p == ColorFlow_params(scene.cf)
            IN  IF p.bad THEN BadArgs ELSE OkArgs(<<ArgString(Scene_val(scene))>> \o p.v)
      [] scene.kind = "AutoDelayOff" ->
            IF scene.duration_min < MIN_AUTO_DELAY_OFF_MINUTES THEN BadArgs
            ELSE IF scene.brightness > MAX_BRIGHTNESS THEN BadArgs
            ELSE OkArgs(<<ArgString(Scene_val(scene)), ArgInt(scene.brightness),
                          ArgInt(scene.duration_min)>>)

\* a to_method_args that takes the millisecond count as it is, in 32 bits
TransitionMode_to_method_args_as_i32(mode) ==
    IF mode.kind = "Sudden" THEN OkArgs(<<ArgString(<<"s", "u", "d", "d", "e", "n">>), ArgInt(50)>>)
    ELSE IF DurationLt(mode.d, MINIMUM_TRANSITION_DURATION) THEN BadArgs
    ELSE OkArgs(<<ArgString(<<"s", "m", "o", "o", "t", "h">>), ArgInt(mode.d.ms)>>)

TransitionMode_to_method_args(mode) ==
    IF mode.kind = "Sudden" THEN OkArgs(<<ArgString(<<"s", "u", "d", "d", "e", "n">>), ArgInt(50)>>)
    ELSE IF DurationLt(mode.d, MINIMUM_TRANSITION_DURATION) THEN BadArgs
    ELSE IF mode.d.over # 0 THEN BadArgs
    ELSE OkArgs(<<ArgString(<<"s", "m", "o", "o", "t", "h">>), ArgInt(mode.d.ms)>>)

\* impl From<Power> for &str
Power_str(power) == IF power = "On" THEN <<"o", "n">> ELSE <<"o", "f", "f">>

\* enum PowerMode { Ct = 1, Rgb = 2, Hsv = 3, ColorFlow = 4, NightLight = 5 }
PowerMode_val(pm) ==
    CASE pm = "Ct" -> 1 [] pm = "Rgb" -> 2 [] pm = "Hsv" -> 3
      [] pm = "ColorFlow" -> 4 [] pm = "NightLight" -> 5

\* impl From<&AdjustAction> for &str, impl From<&AdjustableProp> for &str
AdjustAction_str(a) ==
    CASE a = "Increase" -> <<"i", "n", "c", "r", "e", "a", "s", "e">> [] a = "Decrease" -> <<"d", "e", "c", "r", "e", "a", "s", "e">>
      [] a = "Circle" -> <<"c", "i", "r", "c", "l", "e">>
AdjustableProp_str(p) ==
    CASE p = "Bright" -> <<"b", "r", "i", "g", "h", "t">> [] p = "Ct" -> <<"c", "t">> [] p = "Color" -> <<"c", "o", "l", "o", "r">>

\* ------------------------------------------------------- command functions
\* What a command function does before it reaches call_method: BadRequest, or
\* the method, the arguments and the response type T it calls call_method with.
BadRequest == [bad |-> TRUE, method |-> "none", args |-> <<>>, T |-> "none"]
Call(method, args, T) == [bad |-> FALSE, method |-> method, args |-> args, T |-> T]

get_prop(props) ==
    IF Len(props) = 0 THEN BadRequest
    ELSE Call("GetProp", [k \in 1..Len(props) |-> ArgString(props[k])], "StringVecResponse")

\* set_ct_abx that rejects the upper bound itself
set_ct_abx_exclusive(ct_value, mode) ==
    LET args == TransitionMode_to_method_args(mode)
    IN  IF ct_value >= CT_MAX \/ ct_value < CT_MIN THEN BadRequest
        ELSE IF args.bad THEN BadRequest
        ELSE Call("SetCtAbx", <<ArgInt(ct_value)>> \o args.v, "StringVecResponse")

set_ct_abx(ct_value, mode) ==
    LET args == TransitionMode_to_method_args(mode)
    IN  IF ct_value > CT_MAX \/ ct_value < CT_MIN THEN BadRequest
        ELSE IF args.bad THEN BadRequest
        ELSE Call("SetCtAbx", <<ArgInt(ct_value)>> \o args.v, "StringVecResponse")

set_rgb(rgb, mode) ==
    LET args == TransitionMode_to_method_args(mode)
    IN  IF args.bad THEN BadRequest
        ELSE Call("SetRgb", <<ArgInt(u32_from_RGB(rgb))>> \o args.v, "StringVecResponse")

set_hsv(hsv, mode) ==
    LET args == TransitionMode_to_method_args(mode)
    IN  IF ~HSV_validate(hsv) THEN BadRequest
        ELSE IF args.bad THEN BadRequest
        ELSE Call("SetHsv", <<ArgInt(hsv.hue), ArgInt(hsv.saturation)>> \o args.v,
                  "StringVecResponse")

set_bright(brightness, mode) ==
    LET args == TransitionMode_to_method_args(mode)
    IN  IF brightness > MAX_BRIGHTNESS THEN BadRequest
        ELSE IF args.bad THEN BadRequest
        ELSE Call("SetBright", <<ArgInt(brightness)>> \o args.v, "StringVecResponse")

set_power(power, trans_mode, power_mode) ==
    LET args == TransitionMode_to_method_args(trans_mode)
        pm == IF power_mode = "None" THEN <<>> ELSE <<ArgInt(PowerMode_val(power_mode))>>
    IN  IF args.bad THEN BadRequest
        ELSE Call("SetPower", <<ArgString(Power_str(power))>> \o args.v \o pm,
                  "StringVecResponse")

toggle == Call("Toggle", <<>>, "StringVecResponse")
set_default == Call("SetDefault", <<>>, "StringVecResponse")
start_cf(cf) ==
    LET p == ColorFlow_params(cf)
    IN  IF p.bad THEN BadRequest ELSE Call("StartCf", p.v, "StringVecResponse")
stop_cf == Call("StopCf", <<>>, "StringVecResponse")
set_scene(scene) ==
    LET p == Scene_params(scene)
    IN  IF p.bad THEN BadRequest ELSE Call("SetScene", p.v, "StringVecResponse")

cron_add(cron) == Call("CronAdd", <<ArgInt(0), ArgInt(cron.minutes)>>, "StringVecResponse")
cron_get(cron_type) == Call("CronGet", <<ArgInt(0)>>, "CronResponse")
cron_del(cron_type) == Call("CronDel", <<ArgInt(0)>>, "StringVecResponse")

set_adjust(prop, action) ==
    Call("SetAdjust", <<ArgString(AdjustAction_str(action)), ArgString(AdjustableProp_str(prop))>>,
         "StringVecResponse")

\* MusicMode::On(ip_address, port) | MusicMode::Off
set_music(mode) ==
    IF mode.on
    THEN Call("SetMusic", <<ArgInt(1), ArgString(mode.ip_address), ArgInt(mode.port)>>,
              "StringVecResponse")
    ELSE Call("SetMusic", <<ArgInt(0)>>, "StringVecResponse")

set_name(name) == Call("SetName", <<ArgString(name)>>, "StringVecResponse")

bg_set_ct_abx(ct_value, mode) ==
    LET args == TransitionMode_to_method_args(mode)
    IN  IF ct_value > CT_MAX \/ ct_value < CT_MIN THEN BadRequest
        ELSE IF args.bad THEN BadRequest
        ELSE Call("BgSetCtAbx", <<ArgInt(ct_value)>> \o args.v, "StringVecResponse")

bg_set_rgb(rgb, mode) ==
    LET args == TransitionMode_to_method_args(mode)
    IN  IF args.bad THEN BadRequest
        ELSE Call("BgSetRgb", <<ArgInt(u32_from_RGB(rgb))>> \o args.v, "StringVecResponse")

bg_set_hsv(hsv, mode) ==
    LET args == TransitionMode_to_method_args(mode)
    IN  IF ~HSV_validate(hsv) THEN BadRequest
        ELSE IF args.bad THEN BadRequest
        ELSE Call("BgSetHsv", <<ArgInt(hsv.hue), ArgInt(hsv.saturation)>> \o args.v,
                  "StringVecResponse")

bg_set_bright(brightness, mode) ==
    LET args == TransitionMode_to_method_args(mode)
    IN  IF brightness > MAX_BRIGHTNESS THEN BadRequest
        ELSE IF args.bad THEN BadRequest
        ELSE Call("BgSetBright", <<ArgInt(brightness)>> \o args.v, "StringVecResponse")

bg_set_power(power, trans_mode, power_mode) ==
    LET args == TransitionMode_to_method_args(trans_mode)
        pm == IF power_mode = "None" THEN <<>> ELSE <<ArgInt(PowerMode_val(power_mode))>>
    IN  IF args.bad THEN BadRequest
        ELSE Call("BgSetPower", <<ArgString(Power_str(power))>> \o args.v \o pm,
                  "StringVecResponse")

bg_toggle == Call("BgToggle", <<>>, "StringVecResponse")
bg_set_default == Call("BgSetDefault", <<>>, "StringVecResponse")
bg_start_cf(cf) ==
    LET p == ColorFlow_params(cf)
    IN  IF p.bad THEN BadRequest ELSE Call("BgStartCf", p.v, "StringVecResponse")
bg_stop_cf == Call("BgStopCf", <<>>, "StringVecResponse")
bg_set_scene(scene) ==
    LET p == Scene_params(scene)
    IN  IF p.bad THEN BadRequest ELSE Call("BgSetScene", p.v, "StringVecResponse")
bg_set_adjust(prop, action) ==
    Call("BgSetAdjust", <<ArgString(AdjustAction_str(action)), ArgString(AdjustableProp_str(prop))>>,
         "StringVecResponse")
dev_toggle == Call("DevToggle", <<>>, "StringVecResponse")

\* ------------------------------------------------------------ input domains
Modes ==
    {Sudden, Smooth(Duration(0, 29, 999)), Smooth(from_millis(30)), Smooth(from_millis(500)),
     Smooth(Duration(0, I32_MAX, 999)), Smooth(Duration(1, 0, 0))}
ModesFew == {Sudden, Smooth(from_millis(500)), Smooth(Duration(0, 29, 999))}
CtValues == {0, 100, 1699, 1700, 3500, 6500, 6501, 65535}
BrightValues == {0, 50, 100, 101, 255}
RGBValues == {RGB(0, 0, 255), RGB(255, 255, 255)}
HSVValues == {HSV(255, 45), HSV(359, 100), HSV(360, 0), HSV(0, 101)}
PropLists == {<<>>, <<<<"p", "o", "w", "e", "r">>, <<"n", "o", "t", "_", "e", "x", "i", "s", "t">>, <<"b", "r", "i", "g", "h", "t">>>>, <<<<"a", "\"", "b">>>>}
Names == {<<"l", "a", "m", "p">>, <<>>, <<"a", "\"", "b">>, <<"a", "\\">>, <<"a", "\\", "\\", "b">>, <<"x", "\"", ",", " ", "\"", "y">>}

TestFlow ==
    ColorFlow(4, "TurnOff",
              <<FlowCt(from_millis(1000), 2700, 100), FlowColor(from_millis(500), RGB(0, 0, 255), 10),
                FlowSleep(from_millis(5000)), FlowCt(from_millis(500), 5000, 1)>>)
Flows ==
    {TestFlow,
     ColorFlow(0, "Recover", <<>>),
     ColorFlow(1, "Stay", <<FlowSleep(Duration(2, 5, 0))>>),
     ColorFlow(1, "Stay", <<FlowSleep(Duration(1, I32_MAX, 0))>>),
     ColorFlow(1, "Stay", <<FlowSleep(from_millis(50)), FlowSleep(Duration(0, 49, 999))>>),
     ColorFlow(1, "Recover", <<FlowColor(from_millis(50), RGB(1, 2, 3), 101)>>),
     ColorFlow(1, "Recover", <<FlowCt(from_millis(50), 2700, 101)>>)}
Scenes ==
    {SceneColor(RGB(0, 0, 255), 50), SceneColor(RGB(0, 0, 255), 101),
     SceneHSV(HSV(255, 45), 50), SceneHSV(HSV(360, 101), 255),
     SceneCt(2700, 100), SceneCt(100, 200),
     SceneCf(TestFlow), SceneCf(ColorFlow(1, "Recover", <<FlowSleep(from_millis(49))>>)),
     SceneAutoDelayOff(50, 5), SceneAutoDelayOff(50, 0), SceneAutoDelayOff(101, 5)}
Crons == {[cron_type |-> "PowerOff", minutes |-> 0], [cron_type |-> "PowerOff", minutes |-> 14]}
MusicModes ==
    {[on |-> FALSE, ip_address |-> <<>>, port |-> 0],
     [on |-> TRUE, ip_address |-> <<"1", "9", "2", ".", "1", "6", "8", ".", "0", ".", "2">>, port |-> 54321]}

Inputs ==
    {[f |-> "get_prop", props |-> p] : p \in PropLists}
    \cup {[f |-> g, ct_value |-> c, mode |-> m] :
            g \in {"set_ct_abx", "bg_set_ct_abx"}, c \in CtValues, m \in Modes}
    \cup {[f |-> g, rgb |-> c, mode |-> m] :
            g \in {"set_rgb", "bg_set_rgb"}, c \in RGBValues, m \in ModesFew}
    \cup {[f |-> g, hsv |-> c, mode |-> m] :
            g \in {"set_hsv", "bg_set_hsv"}, c \in HSVValues, m \in ModesFew}
    \cup {[f |-> g, brightness |-> c, mode |-> m] :
            g \in {"set_bright", "bg_set_bright"}, c \in BrightValues, m \in ModesFew}
    \cup {[f |-> g, power |-> c, trans_mode |-> m, power_mode |-> pm] :
            g \in {"set_power", "bg_set_power"}, c \in {"On", "Off"}, m \in ModesFew,
            pm \in {"None", "Ct", "NightLight"}}
    \cup {[f |-> g] : g \in {"toggle", "set_default", "stop_cf", "bg_toggle", "bg_set_default",
                             "bg_stop_cf", "dev_toggle"}}
    \cup {[f |-> g, cf |-> c] : g \in {"start_cf", "bg_start_cf"}, c \in Flows}
    \cup {[f |-> g, scene |-> c] : g \in {"set_scene", "bg_set_scene"}, c \in Scenes}
    \cup {[f |-> "cron_add", cron |-> c] : c \in Crons}
    \cup {[f |-> g, cron_type |-> "PowerOff"] : g \in {"cron_get", "cron_del"}}
    \cup {[f |-> g, prop |-> q, action |-> a] :
            g \in {"set_adjust", "bg_set_adjust"}, q \in {"Ct", "Bright"},
            a \in {"Increase", "Decrease"}}
    \cup {[f |-> "set_music", mode |-> m] : m \in MusicModes}
    \cup {[f |-> "set_name", name |-> n] : n \in Names}

\* the command function c.f applied to the arguments of c
Command(c) ==
    CASE c.f = "get_prop" -> get_prop(c.props)
      [] c.f = "set_ct_abx" -> set_ct_abx(c.ct_value, c.mode)
      [] c.f = "set_rgb" -> set_rgb(c.rgb, c.mode)
      [] c.f = "set_hsv" -> set_hsv(c.hsv, c.mode)
      [] c.f = "set_bright" -> set_bright(c.brightness, c.mode)
      [] c.f = "set_power" -> set_power(c.power, c.trans_mode, c.power_mode)
      [] c.f = "toggle" -> toggle
      [] c.f = "set_default" -> set_default
      [] c.f = "start_cf" -> start_cf(c.cf)
      [] c.f = "stop_cf" -> stop_cf
      [] c.f = "set_scene" -> set_scene(c.scene)
      [] c.f = "cron_add" -> cron_add(c.cron)
      [] c.f = "cron_get" -> cron_get(c.cron_type)
      [] c.f = "cron_del" -> cron_del(c.cron_type)
      [] c.f = "set_adjust" -> set_adjust(c.prop, c.action)
      [] c.f = "set_music" -> set_music(c.mode)
      [] c.f = "set_name" -> set_name(c.name)
      [] c.f = "bg_set_ct_abx" -> bg_set_ct_abx(c.ct_value, c.mode)
      [] c.f = "bg_set_rgb" -> bg_set_rgb(c.rgb, c.mode)
      [] c.f = "bg_set_hsv" -> bg_set_hsv(c.hsv, c.mode)
      [] c.f = "bg_set_bright" -> bg_set_bright(c.brightness, c.mode)
      [] c.f = "bg_set_power" -> bg_set_power(c.power, c.trans_mode, c.power_mode)
      [] c.f = "bg_toggle" -> bg_toggle
      [] c.f = "bg_set_default" -> bg_set_default
      [] c.f = "bg_start_cf" -> bg_start_cf(c.cf)
      [] c.f = "bg_stop_cf" -> bg_stop_cf
      [] c.f = "bg_set_scene" -> bg_set_scene(c.scene)
      [] c.f = "bg_set_adjust" -> bg_set_adjust(c.prop, c.action)
      [] c.f = "dev_toggle" -> dev_toggle

\* the method each command function passes to call_method
MethodOf(f) ==
    CASE f = "get_prop" -> "GetProp" [] f = "set_ct_abx" -> "SetCtAbx"
      [] f = "set_rgb" -> "SetRgb" [] f = "set_hsv" -> "SetHsv"
      [] f = "set_bright" -> "SetBright" [] f = "set_power" -> "SetPower"
      [] f = "toggle" -> "Toggle" [] f = "set_default" -> "SetDefault"
      [] f = "start_cf" -> "StartCf" [] f = "stop_cf" -> "StopCf"
      [] f = "set_scene" -> "SetScene" [] f = "cron_add" -> "CronAdd"
      [] f = "cron_get" -> "CronGet" [] f = "cron_del" -> "CronDel"
      [] f = "set_adjust" -> "SetAdjust" [] f = "set_music" -> "SetMusic"
      [] f = "set_name" -> "SetName" [] f = "bg_set_ct_abx" -> "BgSetCtAbx"
      [] f = "bg_set_rgb" -> "BgSetRgb" [] f = "bg_set_hsv" -> "BgSetHsv"
      [] f = "bg_set_bright" -> "BgSetBright" [] f = "bg_set_power" -> "BgSetPower"
      [] f = "bg_toggle" -> "BgToggle" [] f = "bg_set_default" -> "BgSetDefault"
      [] f = "bg_start_cf" -> "BgStartCf" [] f = "bg_stop_cf" -> "BgStopCf"
      [] f = "bg_set_scene" -> "BgSetScene" [] f = "bg_set_adjust" -> "BgSetAdjust"
      [] f = "dev_toggle" -> "DevToggle"

\* Bulb::support of the connected bulb
SupportA ==
    {"GetProp", "SetPower", "CronAdd", "SetRgb", "SetCtAbx", "StartCf", "SetScene", "Toggle",
     "BgSetHsv", "BgSetBright", "BgStopCf", "BgSetDefault", "BgSetAdjust", "SetName",
     "AdjustBright", "BgAdjustCt"}
SupportSets == {SupportA, Methods \ SupportA}

\* values the random source yields for an i16
Ids == {I16_MIN, 1, 2}

\* texts a transport read delivers
Replies ==
    << <<"{", "\"", "i", "d", "\"", ":", "1", ",", " ", "\"", "r", "e", "s", "u", "l", "t", "\"", ":", "[", "\"", "o", "k", "\"", "]", "}">>,
       <<"{", "\"", "i", "d", "\"", ":", "2", ",", "\"", "r", "e", "s", "u", "l", "t", "\"", ":", "[", "\"", "o", "k", "\"", "]", "}">> \o <<CR, LF>>,
       <<"{", "\"", "i", "d", "\"", ":", "1", ",", "\"", "r", "e", "s", "u", "l", "t", "\"", ":", "[", "\"", "o", "n", "\"", ",", "\"", "\"", ",", "\"", "1", "0", "0", "\"", "]", "}">>,
       <<"{", "\"", "i", "d", "\"", ":", "1", ",", "\"", "e", "r", "r", "o", "r", "\"", ":", "{", "\"", "c", "o", "d", "e", "\"", ":", "-", "1", ",", "\"", "m", "e", "s", "s", "a", "g", "e", "\"", ":", "\"", "b", "a", "d", "\"", "}", "}">>,
       <<"{", "\"", "i", "d", "\"", ":", "2", ",", "\"", "e", "r", "r", "o", "r", "\"", ":", "{", "\"", "c", "o", "d", "e", "\"", ":", "-", "5", "0", "0", "0", ",", "\"", "m", "e", "s", "s", "a", "g", "e", "\"", ":", "\"", "a", "\\", "\"", "b", "\"", "}", "}">> \o <<CR, LF>>,
       <<>>,
       <<"{", "\"", "i", "d", "\"", ":", "1">>,
       <<"{", "\"", "i", "d", "\"", ":", "1", ",", "\"", "r", "e", "s", "u", "l", "t", "\"", ":", "[", "\"", "o", "k", "\"", "]", ",", "\"", "e", "r", "r", "o", "r", "\"", ":", "{", "\"", "c", "o", "d", "e", "\"", ":", "1", ",", "\"", "m", "e", "s", "s", "a", "g", "e", "\"", ":", "\"", "m", "\"", "}", "}">>,
       <<"{", "\"", "i", "d", "\"", ":", "1", ",", "\"", "r", "e", "s", "u", "l", "t", "\"", ":", "[", "{", "\"", "t", "y", "p", "e", "\"", ":", " ", "0", ",", " ", "\"", "d", "e", "l", "a", "y", "\"", ":", " ", "1", "5", ",", " ", "\"", "m", "i", "x", "\"", ":", " ", "0", "}", "]", "}">>,
       <<"{", "\"", "i", "d", "\"", ":", "1", ",", "\"", "r", "e", "s", "u", "l", "t", "\"", ":", "[", "\"">> \o <<"xFF">> \o <<"\"", "]", "}">>,
       <<"{", "\"", "i", "d", "\"", ":", "-", "3", "2", "7", "6", "8", ",", "\"", "r", "e", "s", "u", "l", "t", "\"", ":", "[", "\"">> \o <<"xC3", "xA9">> \o <<"\"", "]", "}">>,
       <<"{", "\"", "i", "d", "\"", ":", "4", "0", "0", "0", "0", ",", "\"", "r", "e", "s", "u", "l", "t", "\"", ":", "[", "\"", "o", "k", "\"", "]", "}">>,
       <<"{", "\"", "i", "d", "\"", ":", "2", ",", "\"", "r", "e", "s", "u", "l", "t", "\"", ":", "[", "]", "}", " ", " ">>,
       <<"[", "1", ",", "[", "\"", "o", "k", "\"", "]", "]">>,
       <<"{", "\"", "i", "d", "\"", ":", "1", ",", "\"", "i", "d", "\"", ":", "1", ",", "\"", "r", "e", "s", "u", "l", "t", "\"", ":", "[", "\"", "o", "k", "\"", "]", "}">>,
       <<"{", "\"", "e", "r", "r", "o", "r", "\"", ":", "{", "\"", "m", "e", "s", "s", "a", "g", "e", "\"", ":", "\"", "m", "\"", ",", "\"", "c", "o", "d", "e", "\"", ":", "7", ",", "\"", "d", "a", "t", "a", "\"", ":", "n", "u", "l", "l", "}", ",", "\"", "i", "d", "\"", ":", "-", "3", "2", "7", "6", "8", "}">>,
       <<"{", "\"", "i", "d", "\"", ":", "1", ",", "\"", "r", "e", "s", "u", "l", "t", "\"", ":", "[", "\"", "o", "k", "\"", "]", "}", " ">> \o <<TAB, CR, LF>>,
       <<"{", "\"", "i", "d", "\"", ":", "1", ",", "\"", "r", "e", "s", "u", "l", "t", "\"", ":", "[", "\"", "o", "k", "\"", "]", "}">> \o <<VT, CR, LF>>,
       <<"{", "\"", "i", "d", "\"", ":", "2", ",", "\"", "r", "e", "s", "u", "l", "t", "\"", ":", "[", "\"", "o", "k", "\"", "]", "}">> \o <<NUL, CR, LF>> >>

\* The read buffer is [bytes, nul]: the bytes up to the last one a read
\* stored, then nul NUL bytes up to BUF_SIZE.
\* let mut buf = [0; 2048]
ZeroBuf == [bytes |-> <<>>, nul |-> BUF_SIZE]
\* conn.read(&mut buf) storing the bytes r: at most BUF_SIZE of them fit
FillBuf(r) ==
    LET n == IF Len(r) <= BUF_SIZE THEN Len(r) ELSE BUF_SIZE
    IN  [bytes |-> SubSeq(r, 1, n), nul |-> BUF_SIZE - n]

\* ------------------------------------------------------- Bulb::parse
\* Option<T>
None == [some |-> FALSE]
Some(x) == [some |-> TRUE, v |-> x]

\* str::split(pat): the pieces between the matches of pat, found left to right
\* (a match that begins inside an earlier match is none)
matches(s, pat) == {i \in 1..(Len(s) - Len(pat) + 1) : SubSeq(s, i, i + Len(pat) - 1) = pat}

first_of(hits) == CHOOSE i \in hits : \A k \in hits : i <= k

RECURSIVE split_from(_, _, _, _, _)
next_piece(s, n, start, acc, hits) ==
    IF hits = {} THEN Append(acc, SubSeq(s, start, Len(s)))
    ELSE split_from(s, n, first_of(hits) + n, Append(acc, SubSeq(s, start, first_of(hits) - 1)),
                    hits)

split_from(s, n, start, acc, hits) == next_piece(s, n, start, acc, {i \in hits : i >= start})

split(s, pat) == split_from(s, Len(pat), 1, <<>>, matches(s, pat))

\* Iterator<&str>::collect::<String>()
RECURSIVE collect(_)
collect(pieces) == IF pieces = <<>> THEN <<>> ELSE Head(pieces) \o collect(Tail(pieces))

\* parse_to_hashmap, the closure of flat_map: the line's key and value
key_and_val(split_line) == [key |-> Head(split_line), val |-> collect(Tail(split_line))]

\* The HashMap is the sequence of the pairs inserted; an insert under a key
\* already there replaces the value, so a lookup finds the last pair.
pairs_of(lines) == [k \in 1..Len(lines) |-> key_and_val(split(lines[k], <<":", " ">>))]

parse_to_hashmap(search_response) == pairs_of(split(search_response, <<CR, LF>>))

\* HashMap::get
last_of(map, hits) ==
    IF hits = {} THEN None
    ELSE Some(map[CHOOSE i \in hits : \A k \in hits : k <= i].val)

get(map, key) == last_of(map, {i \in 1..Len(map) : map[i].key = key})

\* str::parse::<u8>, ::<u16>: an optional "+", then decimal digits, no overflow
AllDigits(s) == Len(s) > 0 /\ \A i \in 1..Len(s) : IsDigit(s[i])

unsigned_digits(s) == IF Len(s) > 0 /\ s[1] = "+" THEN Tail(s) ELSE s

RECURSIVE skip_zeros(_)
skip_zeros(s) == IF Len(s) > 1 /\ s[1] = "0" THEN skip_zeros(Tail(s)) ELSE s

parse_small_digits(d, max) ==
    IF ~AllDigits(d) THEN None
    ELSE IF Len(d) > 5 THEN None
    ELSE IF DecValue(d, 1, Len(d) + 1) > max THEN None
    ELSE Some(DecValue(d, 1, Len(d) + 1))

parse_u8(s) ==
    IF AllDigits(unsigned_digits(s)) THEN parse_small_digits(skip_zeros(unsigned_digits(s)), 255)
    ELSE None

parse_u16(s) ==
    IF AllDigits(unsigned_digits(s)) THEN parse_small_digits(skip_zeros(unsigned_digits(s)), 65535)
    ELSE None

\* str::parse::<u32>: the value in limbs of 10^5, then as hi * 2^31 + lo
u32_of_limbs(a, b) ==
    IF a > 42949 \/ (a = 42949 /\ b > 67295) THEN None
    ELSE IF a > 21474 \/ (a = 21474 /\ b >= 83648)
         THEN Some(U32(1, IF a = 21474 THEN b - 83648
                          ELSE (a - 21475) * 100000 + (100000 + b - 83648)))
         ELSE Some(U32(0, a * 100000 + b))

parse_u32_digits(d) ==
    IF Len(d) > 10 THEN None
    ELSE IF Len(d) <= 5 THEN u32_of_limbs(0, DecValue(d, 1, Len(d) + 1))
    ELSE u32_of_limbs(DecValue(d, 1, Len(d) - 4), DecValue(d, Len(d) - 4, Len(d) + 1))

parse_u32(s) ==
    IF AllDigits(unsigned_digits(s)) THEN parse_u32_digits(skip_zeros(unsigned_digits(s)))
    ELSE None

\* enum Method, in the order of its declaration (Method::into_enum_iter)
Method_into_enum_iter ==
    <<"GetProp", "SetPower", "CronAdd", "CronGet", "CronDel", "SetRgb", "SetHsv",
      "SetCtAbx", "StartCf", "StopCf", "SetScene", "SetDefault", "SetBright",
      "SetAdjust", "Toggle", "AdjustBright", "AdjustCt", "AdjustColor", "BgSetRgb",
      "BgSetHsv", "BgSetCtAbx", "BgStartCf", "BgStopCf", "BgSetScene", "BgSetDefault",
      "BgSetBright", "BgSetAdjust", "BgToggle", "BgAdjustBright", "BgAdjustCt",
      "BgAdjustColor", "BgSetPower", "SetMusic", "SetName", "DevToggle">>

Ok(v) == [ok |-> TRUE, v |-> v]
Error(e) == [ok |-> FALSE, e |-> e]

\* a try_from that takes a method when the token begins with its name
Method_try_from_prefix(value) ==
    LET hits == {k \in 1..Len(Method_into_enum_iter) :
                    /\ Len(MethodStr(Method_into_enum_iter[k])) <= Len(value)
                    /\ MethodStr(Method_into_enum_iter[k])
                         = SubSeq(value, 1, Len(MethodStr(Method_into_enum_iter[k])))}
    IN  IF hits = {} THEN Error("Doesn't match known methods.")
        ELSE Ok(Method_into_enum_iter[CHOOSE k \in hits : \A j \in hits : k <= j])

\* impl TryFrom<&str> for Method: find_map over the methods in order
Method_try_from(value) ==
    LET hits == {k \in 1..Len(Method_into_enum_iter) :
                    MethodStr(Method_into_enum_iter[k]) = value}
    IN  IF hits = {} THEN Error("Doesn't match known methods.")
        ELSE Ok(Method_into_enum_iter[CHOOSE k \in hits : \A j \in hits : k <= j])

\* Method::parse, as flat_map takes it: the method of the token, if any
Method_parse(s) == IF Method_try_from(s).ok THEN {Method_try_from(s).v} ELSE {}

\* impl TryFrom<&String> for Power
Power_try_from(value) ==
    IF value = <<"o", "n">> THEN Ok("On")
    ELSE IF value = <<"o", "f", "f">> THEN Ok("Off")
    ELSE Error("Doesn't match any power option.")

\* Power::parse
Power_parse(s) == IF Power_try_from(s).ok THEN Some(Power_try_from(s).v) ELSE None

\* impl From<u32> for RGB
RGB_from_u32(int) ==
    RGB((int.lo \div 65536) % 256, (int.lo \div 256) % 256, int.lo % 256)

\* enum LightMode
LightModeBase == [kind |-> "Color", rgb |-> RGB(0, 0, 0), ct |-> U32(0, 0), hsv |-> HSV(0, 0)]
Color(rgb) == [LightModeBase EXCEPT !.rgb = rgb]
ColorTemperature(ct) == [LightModeBase EXCEPT !.kind = "ColorTemperature", !.ct = ct]
Hsv(hsv) == [LightModeBase EXCEPT !.kind = "Hsv", !.hsv = hsv]

\* LightMode::parse, the arms of the match on color_mode
color_arm(rgb) ==
    IF ~rgb.some THEN None ELSE
    IF ~parse_u32(rgb.v).some THEN None ELSE Some(Color(RGB_from_u32(parse_u32(rgb.v).v)))

ct_arm(ct) ==
    IF ~ct.some THEN None ELSE
    IF ~parse_u32(ct.v).some THEN None ELSE Some(ColorTemperature(parse_u32(ct.v).v))

hsv_arm(hue, sat) ==
    IF ~hue.some \/ ~sat.some THEN None ELSE
    IF ~parse_u16(hue.v).some \/ ~parse_u8(sat.v).some THEN None
    ELSE Some(Hsv(HSV(parse_u16(hue.v).v, parse_u8(sat.v).v)))

light_mode_of(response_map, cm) ==
    IF ~cm.some THEN None
    ELSE IF cm.v = 1 THEN color_arm(get(response_map, <<"r", "g", "b">>))
    ELSE IF cm.v = 2 THEN ct_arm(get(response_map, <<"c", "t">>))
    ELSE IF cm.v = 3 THEN hsv_arm(get(response_map, <<"h", "u", "e">>), get(response_map, <<"s", "a", "t">>))
    ELSE None

parse_color_mode(cm) == IF cm.some THEN parse_u8(cm.v) ELSE None

LightMode_parse(response_map) ==
    light_mode_of(response_map, parse_color_mode(get(response_map, <<"c", "o", "l", "o", "r", "_", "m", "o", "d", "e">>)))

\* Bulb::parse, the fields one by one
support_of(s) ==
    IF ~s.some THEN None
    ELSE Some(UNION {Method_parse(tok) : tok \in {split(s.v, <<" ">>)[k] : k \in 1..Len(split(s.v, <<" ">>))}})

power_of(s) == IF s.some THEN Power_parse(s.v) ELSE None

brightness_of(s) == IF s.some THEN parse_u8(s.v) ELSE None

\* .map(|s| s.split("//").nth(1)).flatten()
nth_1(pieces) == IF Len(pieces) >= 2 THEN Some(pieces[2]) ELSE None

\* an ip_of that keeps what precedes the "//"
ip_of_scheme(s) ==
    IF s.some /\ Len(split(s.v, <<"/", "/">>)) >= 2 THEN Some(split(s.v, <<"/", "/">>)[1])
    ELSE None

ip_of(s) == IF s.some THEN nth_1(split(s.v, <<"/", "/">>)) ELSE None

\* a bulb_of that asks for no ip
bulb_of_any_ip(model, id, support, power, brightness, light_mode, fw_ver, name, ip) ==
    IF /\ model.some /\ id.some /\ support.some /\ power.some /\ brightness.some
       /\ light_mode.some /\ fw_ver.some /\ name.some
    THEN Some([bright |-> brightness.v, color_mode |-> light_mode.v, fw_ver |-> fw_ver.v,
               id |-> id.v, model |-> model.v, name |-> name.v, power |-> power.v,
               support |-> support.v, ip_address |-> IF ip.some THEN ip.v ELSE <<>>])
    ELSE None

\* Bulb::parse lines 86-113
bulb_of(model, id, support, power, brightness, light_mode, fw_ver, name, ip) ==
    IF /\ model.some /\ id.some /\ support.some /\ power.some /\ brightness.some
       /\ light_mode.some /\ fw_ver.some /\ name.some /\ ip.some
    THEN Some([bright |-> brightness.v, color_mode |-> light_mode.v, fw_ver |-> fw_ver.v,
               id |-> id.v, model |-> model.v, name |-> name.v, power |-> power.v,
               support |-> support.v, ip_address |-> ip.v])
    ELSE None

bulb_of_map(response_map) ==
    bulb_of(get(response_map, <<"m", "o", "d", "e", "l">>), get(response_map, <<"i", "d">>),
            support_of(get(response_map, <<"s", "u", "p", "p", "o", "r", "t">>)),
            power_of(get(response_map, <<"p", "o", "w", "e", "r">>)),
            brightness_of(get(response_map, <<"b", "r", "i", "g", "h", "t">>)),
            LightMode_parse(response_map),
            get(response_map, <<"f", "w", "_", "v", "e", "r">>), get(response_map, <<"n", "a", "m", "e">>),
            ip_of(get(response_map, <<"L", "o", "c", "a", "t", "i", "o", "n">>)))

Bulb_parse(search_response) == bulb_of_map(parse_to_hashmap(search_response))

\* -------------------------------------------------------------------- state
VARIABLES
    support,    \* self.bulb.support
    lock,       \* self.connection (the Mutex): "free" or "held"
    pc,         \* where the caller is: "idle", "write", "read", "done"
    call,       \* the command function called and its arguments
    req,        \* what the command function passes to call_method
    id,         \* the id drawn for the call
    message,    \* the text create_message built
    wire,       \* the bytes the transport was given by the call
    buf,        \* the read buffer
    result,     \* the value the command function returns
    nDraw,      \* values drawn from self.rng so far
    nWrite,     \* conn.write calls so far
    nRead,      \* conn.read calls so far
    calls,      \* command functions called so far
    pre,        \* nDraw, nWrite, nRead and lock when the call began
    trace       \* the steps the call has taken on the rng and the transport

vars ==
    <<support, lock, pc, call, req, id, message, wire, buf, result, nDraw, nWrite, nRead,
      calls, pre, trace>>

\* Threads that call the same BulbConnection: every thread that contends for
\* self.connection, whatever else keeps the threads apart.
VARIABLES
    cpc,        \* where each caller is: "idle", "lock", "write", "read", "done"
    cround,     \* calls each caller has begun
    holder,     \* the caller that holds the MutexGuard, 0 when the lock is free
    issued,     \* requests written to the transport so far
    inflight,   \* the requests written whose reply no read has taken yet
    cwrote,     \* the number of each caller's own request, 0 before its write
    cgot,       \* the request whose reply each caller's read returned
    cresult     \* what each caller's call returns

callerVars == <<cpc, cround, holder, issued, inflight, cwrote, cgot, cresult>>

Callers == 1..MaxCallers
NoRequest == [owner |-> 0, seq |-> 0]

CallersInit ==
    /\ cpc = [t \in Callers |-> "idle"]
    /\ cround = [t \in Callers |-> 0]
    /\ holder = 0
    /\ issued = 0
    /\ inflight = <<>>
    /\ cwrote = [t \in Callers |-> 0]
    /\ cgot = [t \in Callers |-> NoRequest]
    /\ cresult = [t \in Callers |-> "None"]

\* BulbSearcher::search
VARIABLES
    spc,          \* where the search is: "idle", "recv" (inside recv_from), "done"
    policy,       \* self: UntilDuration(d) or UntilBulbCount(n)
    bound,        \* UdpSocket::bind: "none", "ok", "err"
    sent,         \* socket.send_to: "none", "ok", "err"
    recv_timeout, \* the socket's read timeout, None while none is set
    now,          \* time since start (line 57), in ticks
    recv_since,   \* the time at which the recv_from under way was entered
    sbuf,         \* buf of search_with_socket
    found_bulbs,  \* found_bulbs
    ret,          \* what search returns: "none" yet, "None" or "Some" (of found_bulbs)
    nRecv,        \* recv_from calls that have returned Ok
    last_recv,    \* how the last recv_from returned: "none", "ok", "err"
    dgram         \* the bytes the last successful recv_from delivered

searchVars ==
    <<spc, policy, bound, sent, recv_timeout, now, recv_since, sbuf, found_bulbs, ret, nRecv,
      last_recv, dgram>>

UntilDuration(d) == [kind |-> "UntilDuration", d |-> d, count |-> 0]
UntilBulbCount(n) == [kind |-> "UntilBulbCount", d |-> 0, count |-> n]

SearchInit ==
    /\ spc = "idle"
    /\ policy = UntilBulbCount(0)
    /\ bound = "none"
    /\ sent = "none"
    /\ recv_timeout = None
    /\ now = 0
    /\ recv_since = 0
    /\ sbuf = ZeroBuf
    /\ found_bulbs = <<>>
    /\ ret = "none"
    /\ nRecv = 0
    /\ last_recv = "none"
    /\ dgram = <<>>

\* Bulb::parse called on an announcement
VARIABLES
    announced,  \* the announcement given to Bulb::parse: the line chosen for each field
    header_map, \* what parse_to_hashmap made of it
    parsed_bulb \* what Bulb::parse returned

parseVars == <<announced, header_map, parsed_bulb>>

ParseInit ==
    /\ announced = <<>>
    /\ header_map = <<>>
    /\ parsed_bulb = None

\* a conversion between RGB and u32, there and back
VARIABLES
    converted   \* the value converted, its conversion and the conversion back

rgbVars == <<converted>>

RGBInit == converted = [from |-> "none"]

\* what the steps of one view of the program leave alone
beside == <<callerVars, searchVars, parseVars, rgbVars>>
BesideInit == CallersInit /\ SearchInit /\ ParseInit /\ RGBInit
besideCallers == <<vars, searchVars, parseVars, rgbVars>>
besideSearch == <<vars, callerVars, parseVars, rgbVars>>
besideParse == <<vars, callerVars, searchVars, rgbVars>>
besideRGB == <<vars, callerVars, searchVars, parseVars>>

NoCall == [f |-> "none"]
NoReq == [bad |-> FALSE, method |-> "none", args |-> <<>>, T |-> "none"]
Snapshot == [nDraw |-> nDraw, nWrite |-> nWrite, nRead |-> nRead, lock |-> lock]

Init ==
    /\ support \in SupportSets
    /\ lock = "free"
    /\ pc = "idle"
    /\ call = NoCall
    /\ req = NoReq
    /\ id = 0
    /\ message = <<>>
    /\ wire = <<>>
    /\ buf = ZeroBuf
    /\ result = NoResult
    /\ nDraw = 0
    /\ nWrite = 0
    /\ nRead = 0
    /\ calls = 0
    /\ pre = [nDraw |-> 0, nWrite |-> 0, nRead |-> 0, lock |-> "free"]
    /\ trace = <<>>
    /\ BesideInit

\* a gate that lets every method through
SupportedAlways(method) == TRUE

\* a gate with its test the wrong way round
SupportedInverted(method) == method \notin support

\* call_method line 190
Supported(method) == method \in support

\* Invoke that draws the id before the command function validates
InvokeDrawsFirst(c) ==
    /\ pc = "idle"
    /\ UNCHANGED beside
    /\ calls < MaxCalls
    /\ calls' = calls + 1
    /\ call' = c
    /\ req' = Command(c)
    /\ pre' = Snapshot
    /\ \E i \in Ids : id' = i
    /\ nDraw' = nDraw + 1
    /\ UNCHANGED <<support, wire, buf, nWrite, nRead>>
    /\ IF req'.bad THEN
            /\ result' = Err("BadRequest")
            /\ pc' = "done"
            /\ UNCHANGED <<lock, message, trace>>
       ELSE IF ~(req'.method \in support) THEN
            /\ result' = Err("UnsupportedMethod")
            /\ pc' = "done"
            /\ UNCHANGED <<lock, message, trace>>
       ELSE
            /\ lock = "free"
            /\ lock' = "held"
            /\ trace' = <<"draw">>
            /\ message' = create_message(id', req'.method, req'.args)
            /\ result' = NoResult
            /\ pc' = "write"

\* A command function is called: its own validation, then call_method up to
\* the point where it is about to write.
Invoke(c) ==
    /\ pc = "idle"
    /\ UNCHANGED beside
    /\ calls < MaxCalls
    /\ calls' = calls + 1
    /\ call' = c
    /\ req' = Command(c)
    /\ pre' = Snapshot
    /\ UNCHANGED <<support, wire, buf, nWrite, nRead>>
    /\ IF req'.bad THEN
            /\ result' = Err("BadRequest")
            /\ pc' = "done"
            /\ UNCHANGED <<lock, id, message, nDraw, trace>>
       ELSE IF ~Supported(req'.method) THEN
            /\ result' = Err("UnsupportedMethod")
            /\ pc' = "done"
            /\ UNCHANGED <<lock, id, message, nDraw, trace>>
       ELSE
            /\ lock = "free"
            /\ lock' = "held"
            /\ \E i \in Ids : id' = i
            /\ nDraw' = nDraw + 1
            /\ trace' = <<"draw">>
            /\ message' = create_message(id', req'.method, req'.args)
            /\ result' = NoResult
            /\ pc' = "write"

\* conn.write(message.as_bytes()) returns Ok
WriteOk ==
    /\ pc = "write"
    /\ UNCHANGED beside
    /\ nWrite' = nWrite + 1
    /\ wire' = message
    /\ trace' = Append(trace, "write:ok")
    /\ pc' = "read"
    /\ UNCHANGED <<support, lock, call, req, id, message, buf, result, nDraw, nRead, calls, pre>>

\* WriteErr that ignores the failure and goes on to read
WriteErrReadsOn ==
    /\ pc = "write"
    /\ UNCHANGED beside
    /\ nWrite' = nWrite + 1
    /\ trace' = Append(trace, "write:err")
    /\ pc' = "read"
    /\ UNCHANGED <<support, lock, call, req, id, message, wire, buf, result, nDraw, nRead,
                   calls, pre>>

\* conn.write(message.as_bytes()) returns Err: IOError, the guard is dropped
WriteErr ==
    /\ pc = "write"
    /\ UNCHANGED beside
    /\ nWrite' = nWrite + 1
    /\ trace' = Append(trace, "write:err")
    /\ result' = Err("IOError")
    /\ lock' = "free"
    /\ pc' = "done"
    /\ UNCHANGED <<support, call, req, id, message, wire, buf, nDraw, nRead, calls, pre>>

\* conn.read(&mut buf) returns Ok with the bytes of reply r in the buffer; the
\* buffer is decoded, the id compared, the guard dropped
ReadOk(r) ==
    /\ pc = "read"
    /\ UNCHANGED beside
    /\ nRead' = nRead + 1
    /\ trace' = Append(trace, "read:ok")
    /\ buf' = FillBuf(r)
    /\ result' = check_id(decode(buf', req.T), id)
    /\ lock' = "free"
    /\ pc' = "done"
    /\ UNCHANGED <<support, call, req, id, message, wire, nDraw, nWrite, calls, pre>>

\* ReadErr that returns with the guard still held
ReadErrKeepsLock ==
    /\ pc = "read"
    /\ UNCHANGED beside
    /\ nRead' = nRead + 1
    /\ trace' = Append(trace, "read:err")
    /\ buf' = ZeroBuf
    /\ result' = Err("IOError")
    /\ pc' = "done"
    /\ UNCHANGED <<support, lock, call, req, id, message, wire, nDraw, nWrite, calls, pre>>

\* conn.read(&mut buf) returns Err: IOError, the guard is dropped
ReadErr ==
    /\ pc = "read"
    /\ UNCHANGED beside
    /\ nRead' = nRead + 1
    /\ trace' = Append(trace, "read:err")
    /\ buf' = ZeroBuf
    /\ result' = Err("IOError")
    /\ lock' = "free"
    /\ pc' = "done"
    /\ UNCHANGED <<support, call, req, id, message, wire, nDraw, nWrite, calls, pre>>

\* the caller takes the result; the frame of the call is gone
Return ==
    /\ pc = "done"
    /\ UNCHANGED beside
    /\ pc' = "idle"
    /\ call' = NoCall
    /\ req' = NoReq
    /\ id' = 0
    /\ message' = <<>>
    /\ wire' = <<>>
    /\ buf' = ZeroBuf
    /\ result' = NoResult
    /\ trace' = <<>>
    /\ UNCHANGED <<support, lock, nDraw, nWrite, nRead, calls, pre>>

Next ==
    \/ \E c \in Inputs : Invoke(c)
    \/ WriteOk
    \/ WriteErr
    \/ \E k \in 1..Len(Replies) : ReadOk(Replies[k])
    \/ ReadErr
    \/ Return

Spec == Init /\ [][Next]_vars

\* ----------------------------------------------- callers of one connection
\* call_method lines 190-192: the method is not in the support set
CallerRejected(t) ==
    /\ cpc[t] = "idle"
    /\ cround[t] < MaxRounds
    /\ cround' = [cround EXCEPT ![t] = @ + 1]
    /\ cresult' = [cresult EXCEPT ![t] = "UnsupportedMethod"]
    /\ cpc' = [cpc EXCEPT ![t] = "done"]
    /\ UNCHANGED <<holder, issued, inflight, cwrote, cgot>>
    /\ UNCHANGED besideCallers

\* call_method lines 190-192: the method is supported, the caller goes on to lock()
CallerEnters(t) ==
    /\ cpc[t] = "idle"
    /\ cround[t] < MaxRounds
    /\ cround' = [cround EXCEPT ![t] = @ + 1]
    /\ cpc' = [cpc EXCEPT ![t] = "lock"]
    /\ UNCHANGED <<holder, issued, inflight, cwrote, cgot, cresult>>
    /\ UNCHANGED besideCallers

\* a lock() that returns a guard although another caller holds one
CallerLocksUnguarded(t) ==
    /\ cpc[t] = "lock"
    /\ holder' = t
    /\ cpc' = [cpc EXCEPT ![t] = "write"]
    /\ UNCHANGED <<cround, issued, inflight, cwrote, cgot, cresult>>
    /\ UNCHANGED besideCallers

\* call_method lines 194-200: lock() returns once no other guard is alive
CallerLocks(t) ==
    /\ cpc[t] = "lock"
    /\ holder = 0
    /\ holder' = t
    /\ cpc' = [cpc EXCEPT ![t] = "write"]
    /\ UNCHANGED <<cround, issued, inflight, cwrote, cgot, cresult>>
    /\ UNCHANGED besideCallers

\* call_method lines 202-203, conn.write returns Ok: the request is on the wire
CallerWriteOk(t) ==
    /\ cpc[t] = "write"
    /\ issued' = issued + 1
    /\ cwrote' = [cwrote EXCEPT ![t] = issued']
    /\ inflight' = Append(inflight, [owner |-> t, seq |-> issued'])
    /\ cpc' = [cpc EXCEPT ![t] = "read"]
    /\ UNCHANGED <<cround, holder, cgot, cresult>>
    /\ UNCHANGED besideCallers

\* call_method lines 202-203, conn.write returns Err: IOError, the guard is dropped
CallerWriteErr(t) ==
    /\ cpc[t] = "write"
    /\ cresult' = [cresult EXCEPT ![t] = "IOError"]
    /\ holder' = IF holder = t THEN 0 ELSE holder
    /\ cpc' = [cpc EXCEPT ![t] = "done"]
    /\ UNCHANGED <<cround, issued, inflight, cwrote, cgot>>
    /\ UNCHANGED besideCallers

\* call_method lines 205-226, conn.read returns Ok: the stream delivers the
\* reply to the oldest request not yet answered; the guard is dropped
CallerReadOk(t) ==
    /\ cpc[t] = "read"
    /\ inflight # <<>>
    /\ cgot' = [cgot EXCEPT ![t] = Head(inflight)]
    /\ inflight' = Tail(inflight)
    /\ cresult' = [cresult EXCEPT ![t] = "Returned"]
    /\ holder' = IF holder = t THEN 0 ELSE holder
    /\ cpc' = [cpc EXCEPT ![t] = "done"]
    /\ UNCHANGED <<cround, issued, cwrote>>
    /\ UNCHANGED besideCallers

\* call_method lines 205-207, conn.read returns Err: IOError, the guard is
\* dropped, the reply stays unread
CallerReadErr(t) ==
    /\ cpc[t] = "read"
    /\ cresult' = [cresult EXCEPT ![t] = "IOError"]
    /\ holder' = IF holder = t THEN 0 ELSE holder
    /\ cpc' = [cpc EXCEPT ![t] = "done"]
    /\ UNCHANGED <<cround, issued, inflight, cwrote, cgot>>
    /\ UNCHANGED besideCallers

\* the caller takes the result
CallerReturns(t) ==
    /\ cpc[t] = "done"
    /\ cpc' = [cpc EXCEPT ![t] = "idle"]
    /\ cwrote' = [cwrote EXCEPT ![t] = 0]
    /\ cgot' = [cgot EXCEPT ![t] = NoRequest]
    /\ cresult' = [cresult EXCEPT ![t] = "None"]
    /\ UNCHANGED <<cround, holder, issued, inflight>>
    /\ UNCHANGED besideCallers

NextCallers ==
    \/ \E t \in Callers : CallerRejected(t)
    \/ \E t \in Callers : CallerEnters(t)
    \/ \E t \in Callers : CallerLocks(t)
    \/ \E t \in Callers : CallerWriteOk(t)
    \/ \E t \in Callers : CallerWriteErr(t)
    \/ \E t \in Callers : CallerReadOk(t)
    \/ \E t \in Callers : CallerReadErr(t)
    \/ \E t \in Callers : CallerReturns(t)

SpecCallers == Init /\ [][NextCallers]_<<vars, beside>>

\* ------------------------------------------------------------- the search
\* one header line of an announcement
header(key, value) == key \o <<":", " ">> \o value \o <<CR, LF>>

\* an announcement in the layout of tests::recv_contents
announcement(id_, support_, name_) ==
    <<"H", "T", "T", "P", "/", "1", ".", "1", " ", "2", "0", "0", " ", "O", "K">> \o <<CR, LF>>
    \o header(<<"L", "o", "c", "a", "t", "i", "o", "n">>, <<"y", "e", "e", "l", "i", "g", "h", "t", ":", "/", "/", "1", "0", ".", "0", ".", "0", ".", "7", ":", "5", "5", "4", "4", "3">>)
    \o header(<<"i", "d">>, id_)
    \o header(<<"m", "o", "d", "e", "l">>, <<"c", "o", "l", "o", "r">>)
    \o header(<<"f", "w", "_", "v", "e", "r">>, <<"1", "8">>)
    \o header(<<"s", "u", "p", "p", "o", "r", "t">>, support_)
    \o header(<<"p", "o", "w", "e", "r">>, <<"o", "n">>)
    \o header(<<"b", "r", "i", "g", "h", "t">>, <<"1", "0", "0">>)
    \o header(<<"c", "o", "l", "o", "r", "_", "m", "o", "d", "e">>, <<"2">>)
    \o header(<<"c", "t">>, <<"4", "0", "0", "0">>)
    \o header(<<"n", "a", "m", "e">>, name_)

\* the same without its name line
nameless(id_, support_) ==
    <<"H", "T", "T", "P", "/", "1", ".", "1", " ", "2", "0", "0", " ", "O", "K">> \o <<CR, LF>>
    \o header(<<"L", "o", "c", "a", "t", "i", "o", "n">>, <<"y", "e", "e", "l", "i", "g", "h", "t", ":", "/", "/", "1", "0", ".", "0", ".", "0", ".", "9", ":", "5", "5", "4", "4", "3">>)
    \o header(<<"i", "d">>, id_)
    \o header(<<"m", "o", "d", "e", "l">>, <<"m", "o", "n", "o">>)
    \o header(<<"f", "w", "_", "v", "e", "r">>, <<"1", "8">>)
    \o header(<<"s", "u", "p", "p", "o", "r", "t">>, support_)
    \o header(<<"p", "o", "w", "e", "r">>, <<"o", "f", "f">>)
    \o header(<<"b", "r", "i", "g", "h", "t">>, <<"1">>)
    \o header(<<"c", "o", "l", "o", "r", "_", "m", "o", "d", "e">>, <<"2">>)
    \o header(<<"c", "t">>, <<"2", "7", "0", "0">>)

\* datagrams recv_from delivers
Datagrams ==
    << announcement(<<"0", "x", "1">>, <<"g", "e", "t", "_", "p", "r", "o", "p", " ", "s", "e", "t", "_", "p", "o", "w", "e", "r", " ", "t", "o", "g", "g", "l", "e">>, <<"k", "i", "t", "c", "h", "e", "n">>),
       announcement(<<"0", "x", "2">>, <<"t", "o", "g", "g", "l", "e">>, <<"b">>),
       announcement(<<"0", "x", "1">>, <<"t", "o", "g", "g", "l", "e">>, <<"o", "t", "h", "e", "r">>),
       nameless(<<"0", "x", "3">>, <<"t", "o", "g", "g", "l", "e">>),
       <<"xFF", "xFF">>,
       <<>> >>

\* durations and counts a search is started with
Policies ==
    {UntilDuration(d) : d \in 0..2} \cup {UntilBulbCount(n) : n \in 0..2}

\* recv_from stores the datagram at the front of buf; what lies behind it stays
store(b, r) ==
    [bytes |-> r \o SubSeq(b.bytes, Len(r) + 1, Len(b.bytes)),
     nul |-> IF Len(r) > Len(b.bytes) THEN BUF_SIZE - Len(r) ELSE b.nul]

recv_into(b, r) == store(b, SubSeq(r, 1, IF Len(r) <= BUF_SIZE THEN Len(r) ELSE BUF_SIZE))

\* the buffer as text: a run of n NUL characters is one character, named by n
nul_run(n) == IF n = 0 THEN <<>> ELSE <<"NUL*" \o ToString(n)>>
buffer_text(b) == b.bytes \o nul_run(b.nul)

\* lines 63-66: str::from_utf8(&buf).ok().map(|s| Bulb::parse(s)).flatten()
parsed(b) == IF from_utf8_ok(b.bytes) THEN Bulb_parse(buffer_text(b)) ELSE None

\* lines 67-71: the bulb is pushed unless one with its id is in found_bulbs
push_if_new(found, bulb) ==
    IF ~bulb.some THEN found
    ELSE IF \E k \in 1..Len(found) : found[k].id = bulb.v.id THEN found
    ELSE Append(found, bulb.v)

\* a count test that is always met
count_reached_always(found, count) == TRUE

\* line 82
count_reached(found, count) == Len(found) = count

\* line 77
duration_passed(elapsed, duration_limit) == elapsed > duration_limit

\* lines 74-86: the match on self after a recv_from has returned
policy_met(p, found, elapsed) ==
    IF p.kind = "UntilDuration" THEN duration_passed(elapsed, p.d)
    ELSE count_reached(found, p.count)

\* lines 35-40: UdpSocket::bind fails, search returns None
SearchBindFails(p) ==
    /\ spc = "idle"
    /\ policy' = p
    /\ bound' = "err"
    /\ ret' = "None"
    /\ spc' = "done"
    /\ UNCHANGED <<sent, recv_timeout, now, recv_since, sbuf, found_bulbs, nRecv, last_recv, dgram>>
    /\ UNCHANGED besideSearch

\* a failed send_to after which the search goes on to receive
SearchSendFailsUnnoticed(p) ==
    /\ spc = "idle"
    /\ policy' = p
    /\ bound' = "ok"
    /\ sent' = "err"
    /\ spc' = "recv"
    /\ UNCHANGED <<ret, recv_timeout, now, recv_since, sbuf, found_bulbs, nRecv, last_recv, dgram>>
    /\ UNCHANGED besideSearch

\* lines 48-51: send_to fails, search_with_socket returns None
SearchSendFails(p) ==
    /\ spc = "idle"
    /\ policy' = p
    /\ bound' = "ok"
    /\ sent' = "err"
    /\ ret' = "None"
    /\ spc' = "done"
    /\ UNCHANGED <<recv_timeout, now, recv_since, sbuf, found_bulbs, nRecv, last_recv, dgram>>
    /\ UNCHANGED besideSearch

\* lines 48-61: the probe is sent, the read timeout asked for (its result is
\* not looked at: timeout_set tells whether the socket took it, and a UdpSocket
\* takes no zero timeout), start taken, the first recv_from entered
SearchStarts(p, timeout_set) ==
    /\ spc = "idle"
    /\ policy' = p
    /\ bound' = "ok"
    /\ sent' = "ok"
    /\ timeout_set => (p.kind = "UntilDuration" /\ p.d > 0)
    /\ recv_timeout' = IF timeout_set THEN Some(p.d) ELSE None
    /\ now' = 0
    /\ recv_since' = 0
    /\ sbuf' = ZeroBuf
    /\ found_bulbs' = <<>>
    /\ spc' = "recv"
    /\ UNCHANGED <<ret, nRecv, last_recv, dgram>>
    /\ UNCHANGED besideSearch

\* time passes while recv_from blocks; it blocks no longer than the timeout
Tick ==
    /\ spc = "recv"
    /\ policy.kind = "UntilDuration"
    /\ now < MaxTime
    /\ recv_timeout.some => now < recv_since + recv_timeout.v
    /\ now' = now + 1
    /\ UNCHANGED <<spc, policy, bound, sent, recv_timeout, recv_since, sbuf, found_bulbs, ret,
                   nRecv, last_recv, dgram>>
    /\ UNCHANGED besideSearch

\* lines 74-87 after a recv_from: return Some(found_bulbs) or loop
AfterRecv ==
    IF policy_met(policy, found_bulbs', now)
    THEN spc' = "done" /\ ret' = "Some"
    ELSE spc' = "recv" /\ ret' = ret

\* lines 62-87: recv_from returns Ok with datagram r stored; the buffer is
\* parsed, the bulb pushed, the policy looked at
Recv(r) ==
    /\ spc = "recv"
    /\ nRecv < MaxRecv
    /\ nRecv' = nRecv + 1
    /\ last_recv' = "ok"
    /\ dgram' = r
    /\ sbuf' = recv_into(sbuf, r)
    /\ found_bulbs' = push_if_new(found_bulbs, parsed(sbuf'))
    /\ recv_since' = now
    /\ AfterRecv
    /\ UNCHANGED <<policy, bound, sent, recv_timeout, now>>
    /\ UNCHANGED besideSearch

\* lines 62, 74-87: recv_from returns Err for another reason than the timeout
RecvFails ==
    /\ spc = "recv"
    /\ last_recv' = "err"
    /\ found_bulbs' = found_bulbs
    /\ recv_since' = now
    /\ AfterRecv
    /\ UNCHANGED <<policy, bound, sent, recv_timeout, now, sbuf, nRecv, dgram>>
    /\ UNCHANGED besideSearch

\* lines 62, 74-87: recv_from returns Err because the read timeout has run out
RecvTimesOut ==
    /\ spc = "recv"
    /\ recv_timeout.some
    /\ now = recv_since + recv_timeout.v
    /\ last_recv' = "err"
    /\ found_bulbs' = found_bulbs
    /\ recv_since' = now
    /\ AfterRecv
    /\ UNCHANGED <<policy, bound, sent, recv_timeout, now, sbuf, nRecv, dgram>>
    /\ UNCHANGED besideSearch

NextSearch ==
    \/ \E p \in Policies : SearchBindFails(p)
    \/ \E p \in Policies : SearchSendFails(p)
    \/ \E p \in Policies : \E timeout_set \in BOOLEAN : SearchStarts(p, timeout_set)
    \/ Tick
    \/ \E k \in 1..Len(Datagrams) : Recv(Datagrams[k])
    \/ RecvFails
    \/ RecvTimesOut

\* the search does not look at the connection: one bulb's support will do
InitOneBulb == Init /\ support = SupportA

SpecSearch == InitOneBulb /\ [][NextSearch]_<<vars, beside>>

\* ---------------------------------------------------- Bulb::parse, called
\* The lines an announcement can carry for each field, in the order of
\* tests::bulb_parse_test. usable: what the line is worth read by hand against
\* the types of Bulb (bright is a u8: decimal digits, 0 to 255).
line(text, usable) == [text |-> text, usable |-> usable]
absent == line(<<>>, FALSE)

FieldLines ==
    << \* Location
       << line(header(<<"L", "o", "c", "a", "t", "i", "o", "n">>, <<"y", "e", "e", "l", "i", "g", "h", "t", ":", "/", "/", "1", "0", ".", "0", ".", "0", ".", "7", ":", "5", "5", "4", "4", "3">>), TRUE),
          absent,
          line(header(<<"L", "o", "c", "a", "t", "i", "o", "n">>, <<"1", "0", ".", "0", ".", "0", ".", "7", ":", "5", "5", "4", "4", "3">>), FALSE),
          line(header(<<"l", "o", "c", "a", "t", "i", "o", "n">>, <<"y", "e", "e", "l", "i", "g", "h", "t", ":", "/", "/", "1", "0", ".", "0", ".", "0", ".", "7", ":", "5", "5", "4", "4", "3">>), FALSE),
          line(header(<<"L", "o", "c", "a", "t", "i", "o", "n">>, <<"y", "e", "e", "l", "i", "g", "h", "t", ":", "/", "/", "1", "9", "2", ".", "1", "6", "8", ".", "1", ".", "2", "3", "9", ":", "5", "5", "4", "4", "3">>), TRUE),
          line(header(<<"L", "o", "c", "a", "t", "i", "o", "n">>, <<"h", "t", "t", "p", ":", "/", "/", "h", ":", "1">>), TRUE),
          line(header(<<"L", "o", "c", "a", "t", "i", "o", "n">>, <<"y", "e", "e", "l", "i", "g", "h", "t", ":", "/", "/", "[", "f", "e", "8", "0", ":", ":", "1", "]", ":", "5", "5", "4", "4", "3">>), TRUE) >>,
       \* id
       << line(header(<<"i", "d">>, <<"0", "x", "1">>), TRUE),
          absent,
          line(<<"i", "d", ":", "0", "x", "1">> \o <<CR, LF>>, FALSE) >>,
       \* model
       << line(header(<<"m", "o", "d", "e", "l">>, <<"c", "o", "l", "o", "r">>), TRUE), absent >>,
       \* fw_ver
       << line(header(<<"f", "w", "_", "v", "e", "r">>, <<"1", "8">>), TRUE), absent >>,
       \* support
       << line(header(<<"s", "u", "p", "p", "o", "r", "t">>, <<"g", "e", "t", "_", "p", "r", "o", "p", " ", "t", "o", "g", "g", "l", "e">>), TRUE),
          absent,
          line(header(<<"s", "u", "p", "p", "o", "r", "t">>, <<"s", "i", "n", "g", " ", "d", "a", "n", "c", "e">>), TRUE),
          line(header(<<"s", "u", "p", "p", "o", "r", "t">>, <<"g", "e", "t", "_", "p", "r", "o", "p", " ", "s", "e", "t", "_", "d", "e", "f", "a", "u", "l", "t", " ", "s", "e", "t", "_", "p", "o", "w", "e", "r", " ", "t", "o", "g", "g", "l", "e", " ", "s", "e", "t", "_", "b", "r", "i", "g", "h", "t", " ", "s", "t", "a", "r", "t", "_", "c", "f", " ", "s", "t", "o", "p", "_", "c", "f", " ", "s", "e", "t", "_", "s", "c", "e", "n", "e", " ", "c", "r", "o", "n", "_", "a", "d", "d", " ", "c", "r", "o", "n", "_", "g", "e", "t", " ", "c", "r", "o", "n", "_", "d", "e", "l", " ", "s", "e", "t", "_", "c", "t", "_", "a", "b", "x", " ", "s", "e", "t", "_", "r", "g", "b">>), TRUE),
          line(header(<<"s", "u", "p", "p", "o", "r", "t">>, <<"g", "e", "t", "_", "p", "r", "o", "p", " ", "b", "o", "g", "u", "s", " ", "t", "o", "g", "g", "l", "e">>), TRUE),
          line(header(<<"s", "u", "p", "p", "o", "r", "t">>, <<"t", "o", "g", "g", "l", "e", " ", "t", "o", "g", "g", "l", "e">>), TRUE),
          line(header(<<"s", "u", "p", "p", "o", "r", "t">>, <<"t", "o", "g", "g", "l", "e", " ", " ", "s", "e", "t", "_", "r", "g", "b">>), TRUE),
          line(header(<<"s", "u", "p", "p", "o", "r", "t">>, <<"T", "o", "g", "g", "l", "e", " ", "s", "e", "t", "_", "r", "g", "b", ",">>), TRUE),
          line(header(<<"s", "u", "p", "p", "o", "r", "t">>, <<" ", "s", "e", "t", "_", "n", "a", "m", "e", " ">>), TRUE),
          line(header(<<"s", "u", "p", "p", "o", "r", "t">>, <<"g", "e", "t", "_", "p", "r", "o", "p">>), TRUE),
          line(header(<<"s", "u", "p", "p", "o", "r", "t">>, <<"s", "e", "t", "_", "d", "e", "f", "a", "u", "l", "t">>), TRUE),
          line(header(<<"s", "u", "p", "p", "o", "r", "t">>, <<"s", "e", "t", "_", "p", "o", "w", "e", "r">>), TRUE),
          line(header(<<"s", "u", "p", "p", "o", "r", "t">>, <<"t", "o", "g", "g", "l", "e">>), TRUE),
          line(header(<<"s", "u", "p", "p", "o", "r", "t">>, <<"s", "e", "t", "_", "b", "r", "i", "g", "h", "t">>), TRUE),
          line(header(<<"s", "u", "p", "p", "o", "r", "t">>, <<"s", "t", "a", "r", "t", "_", "c", "f">>), TRUE),
          line(header(<<"s", "u", "p", "p", "o", "r", "t">>, <<"s", "t", "o", "p", "_", "c", "f">>), TRUE),
          line(header(<<"s", "u", "p", "p", "o", "r", "t">>, <<"s", "e", "t", "_", "s", "c", "e", "n", "e">>), TRUE),
          line(header(<<"s", "u", "p", "p", "o", "r", "t">>, <<"c", "r", "o", "n", "_", "a", "d", "d">>), TRUE),
          line(header(<<"s", "u", "p", "p", "o", "r", "t">>, <<"c", "r", "o", "n", "_", "g", "e", "t">>), TRUE),
          line(header(<<"s", "u", "p", "p", "o", "r", "t">>, <<"c", "r", "o", "n", "_", "d", "e", "l">>), TRUE),
          line(header(<<"s", "u", "p", "p", "o", "r", "t">>, <<"s", "e", "t", "_", "c", "t", "_", "a", "b", "x">>), TRUE),
          line(header(<<"s", "u", "p", "p", "o", "r", "t">>, <<"s", "e", "t", "_", "r", "g", "b">>), TRUE),
          line(header(<<"s", "u", "p", "p", "o", "r", "t">>, <<"s", "e", "t", "_", "h", "s", "v">>), TRUE),
          line(header(<<"s", "u", "p", "p", "o", "r", "t">>, <<"s", "e", "t", "_", "a", "d", "j", "u", "s", "t">>), TRUE),
          line(header(<<"s", "u", "p", "p", "o", "r", "t">>, <<"s", "e", "t", "_", "m", "u", "s", "i", "c">>), TRUE),
          line(header(<<"s", "u", "p", "p", "o", "r", "t">>, <<"s", "e", "t", "_", "n", "a", "m", "e">>), TRUE),
          line(header(<<"s", "u", "p", "p", "o", "r", "t">>, <<"a", "d", "j", "u", "s", "t", "_", "b", "r", "i", "g", "h", "t">>), TRUE),
          line(header(<<"s", "u", "p", "p", "o", "r", "t">>, <<"a", "d", "j", "u", "s", "t", "_", "c", "t">>), TRUE),
          line(header(<<"s", "u", "p", "p", "o", "r", "t">>, <<"a", "d", "j", "u", "s", "t", "_", "c", "o", "l", "o", "r">>), TRUE),
          line(header(<<"s", "u", "p", "p", "o", "r", "t">>, <<"b", "g", "_", "s", "e", "t", "_", "r", "g", "b">>), TRUE),
          line(header(<<"s", "u", "p", "p", "o", "r", "t">>, <<"b", "g", "_", "s", "e", "t", "_", "h", "s", "v">>), TRUE),
          line(header(<<"s", "u", "p", "p", "o", "r", "t">>, <<"b", "g", "_", "s", "e", "t", "_", "c", "t", "_", "a", "b", "x">>), TRUE),
          line(header(<<"s", "u", "p", "p", "o", "r", "t">>, <<"b", "g", "_", "s", "t", "a", "r", "t", "_", "c", "f">>), TRUE),
          line(header(<<"s", "u", "p", "p", "o", "r", "t">>, <<"b", "g", "_", "s", "t", "o", "p", "_", "c", "f">>), TRUE),
          line(header(<<"s", "u", "p", "p", "o", "r", "t">>, <<"b", "g", "_", "s", "e", "t", "_", "s", "c", "e", "n", "e">>), TRUE),
          line(header(<<"s", "u", "p", "p", "o", "r", "t">>, <<"b", "g", "_", "s", "e", "t", "_", "d", "e", "f", "a", "u", "l", "t">>), TRUE),
          line(header(<<"s", "u", "p", "p", "o", "r", "t">>, <<"b", "g", "_", "s", "e", "t", "_", "b", "r", "i", "g", "h", "t">>), TRUE),
          line(header(<<"s", "u", "p", "p", "o", "r", "t">>, <<"b", "g", "_", "s", "e", "t", "_", "a", "d", "j", "u", "s", "t">>), TRUE),
          line(header(<<"s", "u", "p", "p", "o", "r", "t">>, <<"b", "g", "_", "t", "o", "g", "g", "l", "e">>), TRUE),
          line(header(<<"s", "u", "p", "p", "o", "r", "t">>, <<"b", "g", "_", "a", "d", "j", "u", "s", "t", "_", "b", "r", "i", "g", "h", "t">>), TRUE),
          line(header(<<"s", "u", "p", "p", "o", "r", "t">>, <<"b", "g", "_", "a", "d", "j", "u", "s", "t", "_", "c", "t">>), TRUE),
          line(header(<<"s", "u", "p", "p", "o", "r", "t">>, <<"b", "g", "_", "a", "d", "j", "u", "s", "t", "_", "c", "o", "l", "o", "r">>), TRUE),
          line(header(<<"s", "u", "p", "p", "o", "r", "t">>, <<"d", "e", "v", "_", "t", "o", "g", "g", "l", "e">>), TRUE),
          line(header(<<"s", "u", "p", "p", "o", "r", "t">>, <<"b", "g", "_", "s", "e", "t", "_", "p", "o", "w", "e", "r">>), TRUE) >>,
       \* power
       << line(header(<<"p", "o", "w", "e", "r">>, <<"o", "n">>), TRUE),
          line(header(<<"p", "o", "w", "e", "r">>, <<"o", "f", "f">>), TRUE),
          absent,
          line(header(<<"p", "o", "w", "e", "r">>, <<"O", "N">>), FALSE),
          line(header(<<"p", "o", "w", "e", "r">>, <<"1">>), FALSE) >>,
       \* bright
       << line(header(<<"b", "r", "i", "g", "h", "t">>, <<"1", "0", "0">>), TRUE),
          line(header(<<"b", "r", "i", "g", "h", "t">>, <<"0">>), TRUE),
          line(header(<<"b", "r", "i", "g", "h", "t">>, <<"2", "5", "5">>), TRUE),
          absent,
          line(header(<<"b", "r", "i", "g", "h", "t">>, <<"a", "b", "c">>), FALSE),
          line(header(<<"b", "r", "i", "g", "h", "t">>, <<>>), FALSE),
          line(header(<<"b", "r", "i", "g", "h", "t">>, <<"3", "0", "0">>), FALSE),
          line(header(<<"b", "r", "i", "g", "h", "t">>, <<"-", "1">>), FALSE),
          line(header(<<"b", "r", "i", "g", "h", "t">>, <<"1", ".", "5">>), FALSE),
          line(header(<<"b", "r", "i", "g", "h", "t">>, <<"1", "0", "1">>), TRUE) >>,
       \* color_mode and the fields of the mode
       << line(header(<<"c", "o", "l", "o", "r", "_", "m", "o", "d", "e">>, <<"2">>) \o header(<<"c", "t">>, <<"4", "0", "0", "0">>), TRUE),
          line(header(<<"c", "o", "l", "o", "r", "_", "m", "o", "d", "e">>, <<"1">>) \o header(<<"r", "g", "b">>, <<"1", "6", "7", "1", "1", "6", "8", "0">>), TRUE),
          line(header(<<"c", "o", "l", "o", "r", "_", "m", "o", "d", "e">>, <<"3">>) \o header(<<"h", "u", "e">>, <<"1", "0", "0">>)
               \o header(<<"s", "a", "t">>, <<"3", "5">>), TRUE),
          absent,
          line(header(<<"c", "t">>, <<"4", "0", "0", "0">>) \o header(<<"r", "g", "b">>, <<"1", "6", "7", "1", "1", "6", "8", "0">>), FALSE),
          line(header(<<"c", "o", "l", "o", "r", "_", "m", "o", "d", "e">>, <<"1">>) \o header(<<"c", "t">>, <<"4", "0", "0", "0">>), FALSE),
          line(header(<<"c", "o", "l", "o", "r", "_", "m", "o", "d", "e">>, <<"2">>) \o header(<<"r", "g", "b">>, <<"1", "6", "7", "1", "1", "6", "8", "0">>), FALSE),
          line(header(<<"c", "o", "l", "o", "r", "_", "m", "o", "d", "e">>, <<"3">>) \o header(<<"h", "u", "e">>, <<"1", "0", "0">>), FALSE),
          line(header(<<"c", "o", "l", "o", "r", "_", "m", "o", "d", "e">>, <<"3">>) \o header(<<"s", "a", "t">>, <<"3", "5">>), FALSE),
          line(header(<<"c", "o", "l", "o", "r", "_", "m", "o", "d", "e">>, <<"4">>) \o header(<<"c", "t">>, <<"4", "0", "0", "0">>)
               \o header(<<"r", "g", "b">>, <<"1", "6", "7", "1", "1", "6", "8", "0">>) \o header(<<"h", "u", "e">>, <<"1", "0", "0">>)
               \o header(<<"s", "a", "t">>, <<"3", "5">>), FALSE),
          line(header(<<"c", "o", "l", "o", "r", "_", "m", "o", "d", "e">>, <<"0">>) \o header(<<"c", "t">>, <<"4", "0", "0", "0">>)
               \o header(<<"r", "g", "b">>, <<"1", "6", "7", "1", "1", "6", "8", "0">>), FALSE),
          line(header(<<"c", "o", "l", "o", "r", "_", "m", "o", "d", "e">>, <<"2">>) \o header(<<"c", "t">>, <<"w", "a", "r", "m">>), FALSE) >>,
       \* name
       << line(header(<<"n", "a", "m", "e">>, <<"m", "y", "_", "b", "u", "l", "b">>), TRUE), absent,
          line(header(<<"n", "a", "m", "e">>, <<"d", "e", "s", "k", ":", " ", "l", "e", "f", "t">>), TRUE),
          line(header(<<"n", "a", "m", "e">>, <<"f", "i", "r", "s", "t">>) \o header(<<"n", "a", "m", "e">>, <<"s", "e", "c", "o", "n", "d">>), TRUE) >> >>

Fields == 1..Len(FieldLines)

\* the announcement of tests::bulb_parse_test: the first line of every field
AllFirst == [f \in Fields |-> 1]

\* the announcements that differ from it in at most n fields, made of the
\* first MaxCombined lines of every field
Combined(f) == IF Len(FieldLines[f]) < MaxCombined THEN Len(FieldLines[f]) ELSE MaxCombined

RECURSIVE Changed(_)
Changed(n) ==
    IF n = 0 THEN {AllFirst}
    ELSE Changed(n - 1) \cup
         UNION {{[c EXCEPT ![f] = k] : c \in Changed(n - 1), k \in 1..Combined(f)} :
                    f \in Fields}

\* and those that differ from it in one line, whichever
OneChanged ==
    UNION {{[AllFirst EXCEPT ![f] = k] : k \in 1..Len(FieldLines[f])} : f \in Fields}

Announcements == Changed(MaxChanged) \cup OneChanged

\* the text of the announcement
RECURSIVE lines_from(_, _)
lines_from(c, f) ==
    IF f > Len(FieldLines) THEN <<>> ELSE FieldLines[f][c[f]].text \o lines_from(c, f + 1)

search_response_of(c) == <<"H", "T", "T", "P", "/", "1", ".", "1", " ", "2", "0", "0", " ", "O", "K">> \o <<CR, LF>> \o lines_from(c, 1)

\* Bulb::parse(search_response)
ParseAnnouncement(c) ==
    /\ announced = <<>>
    /\ announced' = c
    /\ header_map' = parse_to_hashmap(search_response_of(c))
    /\ parsed_bulb' = Bulb_parse(search_response_of(c))
    /\ UNCHANGED besideParse

\* one call: nothing is parsed after it
NextParse == announced = <<>> /\ \E c \in Announcements : ParseAnnouncement(c)

SpecParse == InitOneBulb /\ [][NextParse]_<<vars, beside>>

\* ------------------------------------------------------------------------
\* RGB and u32 (rgb.rs)
Bytes == {0, 1, 2, 127, 128, 254, 255}
RGBs == {RGB(r, g, b) : r \in Bytes, g \in Bytes, b \in Bytes}
\* 0xFFFFFF
MaxRGBInt == 16777215
Ints ==
    {U32(0, n) : n \in (0 .. 40) \cup {255, 256, 257, 65535, 65536, 65537, 66303, 8388607,
                                      8388608, 16777214, MaxRGBInt, MaxRGBInt + 1,
                                      MaxRGBInt + 2, 2147483647}}
        \cup {U32(1, 5), U32(1, MaxRGBInt)}

\* RGB::from(u32::from(rgb)), as tests::rgb_u32_test goes the other way
FromRGB(rgb) ==
    /\ converted.from = "none"
    /\ converted' = [from |-> "RGB", rgb |-> rgb, int |-> U32(0, u32_from_RGB(rgb)),
                     back |-> RGB_from_u32(U32(0, u32_from_RGB(rgb)))]
    /\ UNCHANGED besideRGB

\* u32::from(RGB::from(int)) (tests::rgb_u32_test)
FromU32(int) ==
    /\ converted.from = "none"
    /\ converted' = [from |-> "u32", int |-> int, rgb |-> RGB_from_u32(int),
                     back |-> U32(0, u32_from_RGB(RGB_from_u32(int)))]
    /\ UNCHANGED besideRGB

NextRGB ==
    \/ \E rgb \in RGBs : FromRGB(rgb)
    \/ \E int \in Ints : FromU32(int)

SpecRGB == InitOneBulb /\ [][NextRGB]_<<vars, beside>>

\* ================================================================== claims
InCall == pc # "idle"
Gated == InCall /\ ~req.bad /\ req.method \in support
ReadSucceeded == pc = "done" /\ Len(trace) = 3 /\ trace[3] = "read:ok"

\* ------------------------------------------------------------------------
\* C1: a command function called with arguments that pass validation, whose
\* method is not in the support set, performs no transport write, no
\* transport read and draws nothing from the random source.
C1_UnsupportedDoesNoIo ==
    (InCall /\ ~req.bad /\ req.method \notin support) =>
        /\ pc = "done"
        /\ result.kind = "UnsupportedMethod"
        /\ nWrite = pre.nWrite
        /\ nRead = pre.nRead
        /\ nDraw = pre.nDraw
        /\ trace = <<>>
        /\ wire = <<>>

C1_Witness ==
    /\ pc = "done"
    /\ call.f = "set_ct_abx"
    /\ ~req.bad
    /\ "SetCtAbx" \notin support
    /\ result.kind = "UnsupportedMethod"
    /\ pre.nWrite = 1

\* ------------------------------------------------------------------------
\* C2 (as stated): a command function whose method is not in the support set
\* returns UnsupportedMethod for every argument value, valid or not.
C2_UnsupportedForAnyArgs ==
    (pc = "done" /\ MethodOf(call.f) \notin support) => result.kind = "UnsupportedMethod"

\* C2 (amended): a command function whose method is not in the support set
\* returns UnsupportedMethod for every argument value that passes its
\* validation, and BadRequest for every argument value that fails it.
C2_UnsupportedAfterValidation ==
    (pc = "done" /\ MethodOf(call.f) \notin support) =>
        result.kind = (IF req.bad THEN "BadRequest" ELSE "UnsupportedMethod")

C2_Witness ==
    /\ pc = "done"
    /\ call.f = "bg_set_bright"
    /\ call.brightness = 50
    /\ call.mode = Sudden
    /\ "BgSetBright" \notin support
    /\ result.kind = "UnsupportedMethod"

\* ------------------------------------------------------------------------
\* What each text of Replies is, read by hand: for the response type T,
\* whether it has the success shape, the error shape or neither, and the id,
\* result array, code and message it carries.
Neither == [shape |-> "neither", id |-> 0, result |-> <<>>, code |-> 0, message |-> <<>>]
SuccessShape(i, r) == [Neither EXCEPT !.shape = "success", !.id = i, !.result = r]
ErrorShape(i, c, m) == [Neither EXCEPT !.shape = "error", !.id = i, !.code = c, !.message = m]

CronRecord ==
    [t |-> "obj",
     v |-> <<[k |-> <<"t", "y", "p", "e">>, val |-> [t |-> "int", v |-> 0]],
             [k |-> <<"d", "e", "l", "a", "y">>, val |-> [t |-> "int", v |-> 15]],
             [k |-> <<"m", "i", "x">>, val |-> [t |-> "int", v |-> 0]]>>]

Expected(k, T) ==
    LET sv == T = "StringVecResponse"
    IN  CASE k = 1 -> IF sv THEN SuccessShape(1, <<<<"o", "k">>>>) ELSE Neither
          [] k = 2 -> IF sv THEN SuccessShape(2, <<<<"o", "k">>>>) ELSE Neither
          [] k = 3 -> IF sv THEN SuccessShape(1, <<<<"o", "n">>, <<>>, <<"1", "0", "0">>>>) ELSE Neither
          [] k = 4 -> ErrorShape(1, -1, <<"b", "a", "d">>)
          [] k = 5 -> ErrorShape(2, -5000, <<"a", "\"", "b">>)
          [] k = 6 -> Neither
          [] k = 7 -> Neither
          [] k = 8 -> IF sv THEN SuccessShape(1, <<<<"o", "k">>>>) ELSE ErrorShape(1, 1, <<"m">>)
          [] k = 9 -> IF sv THEN Neither ELSE SuccessShape(1, <<CronRecord>>)
          [] k = 10 -> Neither
          [] k = 11 -> IF sv THEN SuccessShape(-32768, <<<<"xC3", "xA9">>>>) ELSE Neither
          [] k = 12 -> Neither
          [] k = 13 -> SuccessShape(2, <<>>)
          [] k = 14 -> IF sv THEN SuccessShape(1, <<<<"o", "k">>>>) ELSE Neither
          [] k = 15 -> Neither
          [] k = 16 -> ErrorShape(-32768, 7, <<"m">>)
          [] k = 17 -> IF sv THEN SuccessShape(1, <<<<"o", "k">>>>) ELSE Neither
          [] k = 18 -> IF sv THEN SuccessShape(1, <<<<"o", "k">>>>) ELSE Neither
          [] k = 19 -> Neither

\* the reply whose bytes the buffer holds
ReplyRead == CHOOSE k \in 1..Len(Replies) : FillBuf(Replies[k]) = buf
ExpectedRead == Expected(ReplyRead, req.T)

\* ------------------------------------------------------------------------
\* C3: when the bytes read are a success-shaped reply, call_method returns Ok
\* with that reply's result array unchanged if and only if the reply's id is
\* the id drawn for the call; when the ids differ it returns
\* SynchronizationError.
C3_OkIffIdMatches ==
    (ReadSucceeded /\ ExpectedRead.shape = "success") =>
        /\ result.kind = "Ok" <=> ExpectedRead.id = id
        /\ result.kind = "Ok" => (result.id = id /\ result.result = ExpectedRead.result)
        /\ ExpectedRead.id # id => result.kind = "SynchronizationError"

C3_Witness ==
    /\ pc = "done"
    /\ call.f = "toggle"
    /\ id = 1
    /\ wire = <<"{", "\"", "i", "d", "\"", ":", "1", ",", "\"", "m", "e", "t", "h", "o", "d", "\"", ":", "\"", "t", "o", "g", "g", "l", "e", "\"", ",", "\"", "p", "a", "r", "a", "m", "s", "\"", ":", "[", "]", "}">> \o <<CR, LF>>
    /\ buf.bytes = <<"{", "\"", "i", "d", "\"", ":", "1", ",", " ", "\"", "r", "e", "s", "u", "l", "t", "\"", ":", "[", "\"", "o", "k", "\"", "]", "}">>
    /\ result.kind = "Ok"
    /\ result.result = <<<<"o", "k">>>>

\* ------------------------------------------------------------------------
\* C4: no reply whose id differs from the id drawn for the call is attributed
\* to the call: from such a reply call_method returns neither Ok nor
\* ErrorResponse.
C4_NoForeignReply ==
    (ReadSucceeded /\ ExpectedRead.shape # "neither" /\ ExpectedRead.id # id) =>
        result.kind \notin {"Ok", "ErrorResponse"}

\* ------------------------------------------------------------------------
\* C5: a call that passes validation and the capability gate draws one id,
\* writes once a request carrying that id and, only if the write succeeded,
\* reads once; a failed write or read ends it with IOError; no step repeats.
WireId(w) == ParseNumber(w, Len(<<"{", "\"", "i", "d", "\"", ":">>) + 1)

C5_FixedStepSequence ==
    Gated =>
        /\ nDraw = pre.nDraw + 1
        /\ nWrite = pre.nWrite + Cardinality({k \in 1..Len(trace) : trace[k] \in {"write:ok", "write:err"}})
        /\ nRead = pre.nRead + Cardinality({k \in 1..Len(trace) : trace[k] \in {"read:ok", "read:err"}})
        /\ pc = "write" => trace = <<"draw">>
        /\ pc = "read" => trace = <<"draw", "write:ok">>
        /\ pc = "done" =>
            \/ trace = <<"draw", "write:err">> /\ result.kind = "IOError"
            \/ trace = <<"draw", "write:ok", "read:err">> /\ result.kind = "IOError"
            \/ trace = <<"draw", "write:ok", "read:ok">> /\ result.kind # "IOError"
        /\ (Len(trace) >= 2 /\ trace[2] = "write:ok") =>
            (wire = message /\ WireId(wire).ok /\ WireId(wire).t = "int" /\ WireId(wire).v = id)
        /\ (Len(trace) >= 2 /\ trace[2] = "write:err") => wire = <<>>

C5_Witness ==
    /\ pc = "done"
    /\ trace = <<"draw", "write:ok", "read:err">>
    /\ result.kind = "IOError"
    /\ id = -32768
    /\ nWrite = 2
    /\ nRead = 2

\* ------------------------------------------------------------------------
\* C6: create_message(id, method, args) is exactly
\* {"id":<id>,"method":"<wire name>","params":[<args>]} CR LF, the id a
\* decimal, string arguments between double quotes, integer arguments bare
\* decimals, in order, separated by a comma and one space, [] when empty.
At(m, pos, text) ==
    /\ pos + Len(text) - 1 <= Len(m)
    /\ SubSeq(m, pos, pos + Len(text) - 1) = text

\* the index after the decimal numeral of n that starts at pos, 0 if none does
DecimalEnd(m, pos, n) ==
    LET d == IF n < 0 THEN pos + 1 ELSE pos
        e == DigitsEnd(m, d)
    IN  IF /\ pos <= Len(m)
           /\ (n < 0) = (m[pos] = "-")
           /\ e > d
           /\ (e > d + 1 => m[d] # "0")
           /\ DecValue(m, d, e) = (IF n < 0 THEN -n ELSE n)
        THEN e ELSE 0

ArgEnd(m, pos, a) ==
    IF a.k = "Int" THEN DecimalEnd(m, pos, a.i)
    ELSE IF At(m, pos, <<QUOTE>>) /\ At(m, pos + 1, a.s) /\ At(m, pos + 1 + Len(a.s), <<QUOTE>>)
         THEN pos + Len(a.s) + 2 ELSE 0

RECURSIVE ArgsEnd(_, _, _, _)
ArgsEnd(m, pos, args, k) ==
    IF k > Len(args) THEN pos
    ELSE LET p == IF k = 1 THEN pos ELSE IF At(m, pos, <<",", " ">>) THEN pos + 2 ELSE 0
             e == IF p = 0 THEN 0 ELSE ArgEnd(m, p, args[k])
         IN  IF e = 0 THEN 0 ELSE ArgsEnd(m, e, args, k + 1)

IsWireText(m, i, method, args) ==
    LET e1 == DecimalEnd(m, 7, i)
        head == <<",", "\"", "m", "e", "t", "h", "o", "d", "\"", ":", "\"">> \o MethodStr(method) \o <<"\"", ",", "\"", "p", "a", "r", "a", "m", "s", "\"", ":", "[">>
        e2 == ArgsEnd(m, e1 + Len(head), args, 1)
    IN  /\ At(m, 1, <<"{", "\"", "i", "d", "\"", ":">>)
        /\ e1 # 0
        /\ At(m, e1, head)
        /\ e2 # 0
        /\ At(m, e2, <<"]", "}", CR, LF>>)
        /\ Len(m) = e2 + 3

C6_ExactWireText ==
    (Gated /\ pc \in {"write", "read", "done"}) => IsWireText(message, id, req.method, req.args)

C6_Witness ==
    /\ pc = "read"
    /\ call.f = "set_ct_abx"
    /\ call.ct_value = 3500
    /\ call.mode = Smooth(from_millis(500))
    /\ wire = <<"{", "\"", "i", "d", "\"", ":", "-", "3", "2", "7", "6", "8", ",", "\"", "m", "e", "t", "h", "o", "d", "\"", ":", "\"", "s", "e", "t", "_", "c", "t", "_", "a", "b", "x", "\"", ",", "\"", "p", "a", "r", "a", "m", "s", "\"", ":", "[", "3", "5", "0", "0", ",", " ", "\"", "s", "m", "o", "o", "t", "h", "\"", ",", " ", "5", "0", "0", "]", "}">> \o <<CR, LF>>

\* ------------------------------------------------------------------------
\* C7: for every id, method and argument list the command functions produce
\* (string arguments may hold double quotes and backslashes) the text of
\* create_message without its CRLF is one well-formed JSON object whose id
\* and method are the inputs and whose params has one element per argument.
WithoutCrLf(m) == SubSeq(m, 1, Len(m) - 2)
RequestNames == <<<<"i", "d">>, <<"m", "e", "t", "h", "o", "d">>, <<"p", "a", "r", "a", "m", "s">>>>

C7_RequestIsJson ==
    (Gated /\ pc \in {"write", "read", "done"}) =>
        LET j == from_str(WithoutCrLf(message))
        IN  /\ j.ok
            /\ j.t = "obj"
            /\ StructShape(j, RequestNames)
            /\ StructField(j, RequestNames, 1).t = "int"
            /\ StructField(j, RequestNames, 1).v = id
            /\ StructField(j, RequestNames, 2).t = "str"
            /\ StructField(j, RequestNames, 2).v = MethodStr(req.method)
            /\ StructField(j, RequestNames, 3).t = "arr"
            /\ Len(StructField(j, RequestNames, 3).v) = Len(req.args)

\* ------------------------------------------------------------------------
\* C8: set_ct_abx and bg_set_ct_abx return BadRequest for every ct_value
\* below 1700 or above 6500, and never because of ct_value when
\* 1700 <= ct_value <= 6500.
ModeAccepted(mode) ==
    mode.kind = "Sudden" \/ (mode.d.over = 0 /\ mode.d.ms >= 30)

C8_CtRange ==
    (pc = "done" /\ call.f \in {"set_ct_abx", "bg_set_ct_abx"}) =>
        /\ (call.ct_value < 1700 \/ call.ct_value > 6500) => result.kind = "BadRequest"
        /\ (call.ct_value >= 1700 /\ call.ct_value <= 6500 /\ ModeAccepted(call.mode)) =>
                result.kind # "BadRequest"

C8_Witness ==
    /\ pc = "done"
    /\ call.f = "bg_set_ct_abx"
    /\ call.ct_value = 6500
    /\ call.mode = Sudden
    /\ result.kind = "Ok"

\* ------------------------------------------------------------------------
\* C9: when a command function returns BadRequest nothing has reached the
\* transport: no write, no read, no id drawn, the connection as it was.
C9_BadRequestTouchesNothing ==
    (InCall /\ result.kind = "BadRequest") =>
        /\ nWrite = pre.nWrite
        /\ nRead = pre.nRead
        /\ nDraw = pre.nDraw
        /\ lock = pre.lock
        /\ trace = <<>>
        /\ wire = <<>>
        /\ buf = ZeroBuf

C9_Witness ==
    /\ pc = "done"
    /\ result.kind = "BadRequest"
    /\ call.f = "start_cf"
    /\ "StartCf" \in support
    /\ pre.nWrite = 1
    /\ nWrite = 1

\* ------------------------------------------------------------------------
\* C10: the buffer is tried as the success shape first and as the error shape
\* second: a buffer of the success shape is never reported as ErrorResponse;
\* one that is not, but has the error shape, gives ErrorResponse with the
\* device's code and message unchanged; one of neither shape, or not UTF-8,
\* gives ParseError.
C10_DecodeOrder ==
    ReadSucceeded =>
        /\ ExpectedRead.shape = "success" => result.kind \in {"Ok", "SynchronizationError"}
        /\ ExpectedRead.shape = "error" =>
            /\ result.kind = "ErrorResponse"
            /\ result.code = ExpectedRead.code
            /\ result.message = ExpectedRead.message
        /\ ExpectedRead.shape = "neither" => result.kind = "ParseError"

C10_Witness ==
    /\ pc = "done"
    /\ req.T = "CronResponse"
    /\ buf.bytes = <<"{", "\"", "i", "d", "\"", ":", "1", ",", "\"", "r", "e", "s", "u", "l", "t", "\"", ":", "[", "\"", "o", "k", "\"", "]", ",", "\"", "e", "r", "r", "o", "r", "\"", ":", "{", "\"", "c", "o", "d", "e", "\"", ":", "1", ",", "\"", "m", "e", "s", "s", "a", "g", "e", "\"", ":", "\"", "m", "\"", "}", "}">>
    /\ result.kind = "ErrorResponse"
    /\ result.code = 1
    /\ result.message = <<"m">>

\* ------------------------------------------------------------------------
\* C11 as stated: for every reply text r, a read buffer holding r, then any
\* run of whitespace, then NUL padding decodes to the outcome of r alone.
TailIsWhitespace(b, n) == \A i \in (n + 1)..Len(b) : b[i] \in UnicodeWs

\* the outcome of the text r taken by itself, neither padded nor trimmed
AloneOutcome(r) ==
    IF ~from_utf8_ok(r) THEN Err("ParseError") ELSE check_id(decode_str(r, req.T), id)

C11_PaddingInvisibleForAnyText ==
    ReadSucceeded =>
        \A n \in 0..Len(buf.bytes) :
            TailIsWhitespace(buf.bytes, n) => result = AloneOutcome(SubSeq(buf.bytes, 1, n))

\* C11: for every reply text r that does not itself end in whitespace or NUL,
\* a read buffer holding r, then any run of whitespace (CRLF included), then
\* NUL padding to the end decodes to the same outcome as r alone.
EndsClean(b, n) == n = 0 \/ b[n] \notin (UnicodeWs \cup {NUL})

C11_PaddingInvisible ==
    ReadSucceeded =>
        /\ Len(buf.bytes) + buf.nul = BUF_SIZE
        /\ \A n \in 0..Len(buf.bytes) :
              (TailIsWhitespace(buf.bytes, n) /\ EndsClean(buf.bytes, n)) =>
                  result = AloneOutcome(SubSeq(buf.bytes, 1, n))

C11_Witness ==
    /\ pc = "done"
    /\ call.f = "toggle"
    /\ id = 1
    /\ buf.bytes = <<"{", "\"", "i", "d", "\"", ":", "1", ",", "\"", "r", "e", "s", "u", "l", "t", "\"", ":", "[", "\"", "o", "k", "\"", "]", "}">> \o <<VT, CR, LF>>
    /\ buf.nul = BUF_SIZE - Len(buf.bytes)
    /\ result.kind = "Ok"
    /\ result = AloneOutcome(<<"{", "\"", "i", "d", "\"", ":", "1", ",", "\"", "r", "e", "s", "u", "l", "t", "\"", ":", "[", "\"", "o", "k", "\"", "]", "}">>)

\* ------------------------------------------------------------------------
\* C12: the transport lock is free whenever no call is between its lock and
\* its return, whatever the outcome of the calls that finished; every call
\* finds it free, and a call that passes the gate acquires it and reaches its
\* write.
Outcomes ==
    {"Ok", "IOError", "ParseError", "ErrorResponse", "SynchronizationError", "BadRequest",
     "UnsupportedMethod"}

C12_LockReleased ==
    /\ pc \in {"idle", "done"} => lock = "free"
    /\ pc = "done" => result.kind \in Outcomes
    /\ pc \in {"write", "read"} => lock = "held"
    /\ InCall => pre.lock = "free"
    /\ Gated => (Len(trace) >= 1 /\ trace[1] = "draw")

C12_Witness ==
    /\ calls = 2
    /\ pre.nRead = 1
    /\ pre.lock = "free"
    /\ pc = "write"
    /\ lock = "held"
    /\ trace = <<"draw">>

\* ------------------------------------------------------------------------
\* C13: at most one call is in flight per connection: a caller between its
\* write and its return from read holds the lock alone, no other caller is at
\* its write or read, and the reply a read returns was never requested by a
\* write that came after the reader's own write.
InFlight(t) == cpc[t] \in {"write", "read"}

C13_OneCallInFlight ==
    /\ \A t \in Callers : InFlight(t) => holder = t
    /\ \A t, u \in Callers : (InFlight(t) /\ InFlight(u)) => t = u
    /\ \A t \in Callers : cgot[t] # NoRequest => cgot[t].seq <= cwrote[t]
    /\ \A k \in 1..Len(inflight) : \A t \in Callers :
          cpc[t] = "read" => inflight[k].seq <= cwrote[t]

C13_Witness ==
    /\ cpc[1] = "done"
    /\ cgot[1] = [owner |-> 1, seq |-> 1]
    /\ cresult[1] = "Returned"
    /\ cpc[2] = "write"
    /\ holder = 2
    /\ issued = 1

\* ------------------------------------------------------------------------
\* C14: at every point of a search, and in the value it returns, the bulbs
\* collected have pairwise distinct ids; the bulb kept for an id is the one
\* parsed from the first announcement received with that id: a receive of an
\* announcement adds at the end the bulb parsed from it when no bulb with that
\* id is there yet, and otherwise changes nothing, whatever the other fields
\* are; a bulb once collected stays as it is.
DistinctIds(found) ==
    \A i, j \in 1..Len(found) : found[i].id = found[j].id => i = j

HasId(found, id_) == \E k \in 1..Len(found) : found[k].id = id_

\* what is parsed from datagram r when nothing else is in the buffer
AloneInBuffer(r) == parsed(recv_into(ZeroBuf, r))

FirstWins ==
    IF spc = "recv" /\ nRecv' = nRecv + 1 /\ AloneInBuffer(dgram').some
    THEN IF HasId(found_bulbs, AloneInBuffer(dgram').v.id)
         THEN found_bulbs' = found_bulbs
         ELSE found_bulbs' = Append(found_bulbs, AloneInBuffer(dgram').v)
    ELSE \/ /\ Len(found_bulbs') >= Len(found_bulbs)
            /\ SubSeq(found_bulbs', 1, Len(found_bulbs)) = found_bulbs
         \/ spc = "idle" /\ found_bulbs' = <<>>

C14_FirstAnnouncementWins ==
    [](DistinctIds(found_bulbs)) /\ [][FirstWins]_searchVars

\* ------------------------------------------------------------------------
\* C15: a search with UntilDuration(d) returns only once the time elapsed is
\* at least d, and no later than d plus one wait interval (the read timeout
\* d), whatever arrives and whenever.
C15_DurationBounds ==
    (policy.kind = "UntilDuration" /\ sent = "ok") =>
        /\ ret = "Some" => (now >= policy.d /\ now <= policy.d + policy.d)
        /\ spc = "recv" => now <= policy.d + policy.d

\* ------------------------------------------------------------------------
\* C16: a search with UntilBulbCount(n) does not return while fewer than n
\* distinct ids are found, and what it returns holds exactly n bulbs with
\* pairwise distinct ids.
IdsFound == {found_bulbs[k].id : k \in 1..Len(found_bulbs)}

C16_ExactCount ==
    (policy.kind = "UntilBulbCount" /\ ret = "Some") =>
        /\ spc = "done"
        /\ Cardinality(IdsFound) = policy.count
        /\ Len(found_bulbs) = policy.count
        /\ DistinctIds(found_bulbs)

C16_Witness ==
    /\ policy = UntilBulbCount(2)
    /\ ret = "Some"
    /\ nRecv = 2
    /\ Len(found_bulbs) = 2
    /\ found_bulbs[1].id = <<"0", "x", "1">>
    /\ found_bulbs[2].id = <<"0", "x", "2">>

\* ------------------------------------------------------------------------
\* C17: for every n >= 0 a search with UntilBulbCount(n) in which at least n
\* distinct bulbs are found has returned: it is not inside recv_from waiting
\* for a datagram.
C17_ReturnsOnceCountReached ==
    (policy.kind = "UntilBulbCount" /\ sent = "ok" /\ Cardinality(IdsFound) >= policy.count) =>
        (spc = "done" /\ ret = "Some")

\* ------------------------------------------------------------------------
\* C18: when the probe send fails the search returns None and no recv_from
\* has been called; None is returned only then and when the bind failed.
C18_NoneOnlyWhenProbeFails ==
    /\ sent = "err" => (spc = "done" /\ ret = "None" /\ nRecv = 0 /\ last_recv = "none")
    /\ bound = "err" => (spc = "done" /\ ret = "None" /\ sent = "none" /\ last_recv = "none")
    /\ ret = "None" <=> (sent = "err" \/ bound = "err")
    /\ spc = "done" <=> ret \in {"None", "Some"}

C18_Witness ==
    /\ bound = "ok"
    /\ sent = "err"
    /\ ret = "None"
    /\ spc = "done"
    /\ nRecv = 0
    /\ policy = UntilBulbCount(1)

\* ------------------------------------------------------------------------
\* C19: a recv_from that fails, and one that delivers a datagram which is not
\* valid UTF-8 or from which Bulb::parse yields no bulb, leaves found_bulbs as
\* it was and does not end the search with a failure: the policy is looked
\* at, and the search receives again unless the policy is met.
RecvReturns == spc = "recv" /\ now' = now /\ searchVars' # searchVars

NoDescriptorIn(r) == ~from_utf8_ok(r) \/ ~Bulb_parse(r).some

NothingReceived ==
    IF nRecv' = nRecv + 1 THEN last_recv' = "ok" /\ NoDescriptorIn(dgram') ELSE last_recv' = "err"

PolicyMetNow ==
    \/ policy.kind = "UntilDuration" /\ now > policy.d
    \/ policy.kind = "UntilBulbCount" /\ Len(found_bulbs) = policy.count

NoiseIsIgnored ==
    (RecvReturns /\ NothingReceived) =>
        /\ found_bulbs' = found_bulbs
        /\ ret' # "None"
        /\ IF PolicyMetNow THEN spc' = "done" /\ ret' = "Some" ELSE spc' = "recv" /\ ret' = "none"

C19_NoiseIsIgnored == [][NoiseIsIgnored]_searchVars

\* ------------------------------------------------------------------------
Chosen(f) == FieldLines[f][announced[f]]

\* C20: Bulb::parse returns a descriptor if and only if the announcement has
\* every required key with a usable value: id, model, fw_ver, support, name,
\* a Location with "//" in it, power on or off, bright a decimal number from
\* 0 to 255, color_mode 1, 2 or 3 with the numeric field(s) of that mode; if
\* one is missing or unusable it returns None, and a descriptor it returns has
\* every field.
C20_DescriptorIffAllUsable ==
    announced # <<>> =>
        /\ parsed_bulb.some <=> \A f \in Fields : Chosen(f).usable
        /\ parsed_bulb.some =>
              /\ DOMAIN parsed_bulb.v = {"id", "model", "fw_ver", "support", "power", "bright",
                                  "color_mode", "name", "ip_address"}
              /\ parsed_bulb.v.id = <<"0", "x", "1">>
              /\ parsed_bulb.v.power \in {"On", "Off"}
              /\ parsed_bulb.v.bright \in 0..255

C20_Witness ==
    /\ announced = [AllFirst EXCEPT ![1] = 2]
    /\ parsed_bulb = None

\* ------------------------------------------------------------------------
\* C21: when the Location of the announcement has the form
\* scheme://host:port, the ip_address of the bulb parsed is the host:port
\* text, all of what follows the "//" and nothing of the scheme.
HostPort ==
    [k \in {1, 5, 6, 7} |->
        CASE k = 1 -> <<"1", "0", ".", "0", ".", "0", ".", "7", ":", "5", "5", "4", "4", "3">>
          [] k = 5 -> <<"1", "9", "2", ".", "1", "6", "8", ".", "1", ".", "2", "3", "9", ":", "5", "5", "4", "4", "3">>
          [] k = 6 -> <<"h", ":", "1">>
          [] k = 7 -> <<"[", "f", "e", "8", "0", ":", ":", "1", "]", ":", "5", "5", "4", "4", "3">>]

OthersUsable(f) == \A g \in Fields \ {f} : Chosen(g).usable

C21_IpIsHostPort ==
    (announced # <<>> /\ announced[1] \in DOMAIN HostPort /\ OthersUsable(1)) =>
        /\ parsed_bulb.some
        /\ parsed_bulb.v.ip_address = HostPort[announced[1]]

C21_Witness ==
    /\ announced = [AllFirst EXCEPT ![1] = 6]
    /\ parsed_bulb.some
    /\ parsed_bulb.v.ip_address = <<"h", ":", "1">>

\* ------------------------------------------------------------------------
\* C22: for every id there is, among the policies a search can be started
\* with, a TargetId policy for that id, and a search under it has returned
\* exactly when a bulb with that id is among the bulbs found (which it then
\* returns).
TargetIds == {<<"0", "x", "1">>, <<"0", "x", "2">>}

IsTargetId(p, t) == p.kind = "TargetId" /\ p.id = t

C22_TargetIdPolicy ==
    \A t \in TargetIds :
        \E p \in Policies :
            /\ IsTargetId(p, t)
            /\ (policy = p /\ spc # "idle" /\ sent = "ok") =>
                  (ret = "Some" <=> HasId(found_bulbs, t))

\* ------------------------------------------------------------------------
\* C23: set_scene and bg_set_scene called with a Color, HSV, Ct or
\* AutoDelayOff scene whose brightness is above 100, or with a Ct scene whose
\* color temperature is below 1700 or above 6500, return BadRequest and
\* nothing is written.
SceneOutOfRange(scene) ==
    \/ scene.kind \in {"Color", "HSV", "Ct", "AutoDelayOff"} /\ scene.brightness > 100
    \/ scene.kind = "Ct" /\ (scene.ct < 1700 \/ scene.ct > 6500)

C23_SceneArgsValidated ==
    (/\ InCall
     /\ call.f \in {"set_scene", "bg_set_scene"}
     /\ MethodOf(call.f) \in support
     /\ SceneOutOfRange(call.scene)) =>
        /\ pc = "done"
        /\ result.kind = "BadRequest"
        /\ nWrite = pre.nWrite
        /\ wire = <<>>

\* ------------------------------------------------------------------------
\* C24: a command function that takes a transition mode and whose other
\* arguments are valid returns BadRequest for Smooth(d) with d below 30 ms or
\* with more whole milliseconds than i32::MAX; for any other Smooth(d) the
\* effect and duration arguments are "smooth" and d in whole milliseconds, and
\* for Sudden they are "sudden" and 50.
TakesMode ==
    \/ call.f \in {"set_rgb", "bg_set_rgb"}
    \/ call.f \in {"set_ct_abx", "bg_set_ct_abx"} /\ call.ct_value \in 1700..6500

TooShort(d) == d.over = 0 /\ d.ms < 30
TooLong(d) == d.over > 0

C24_TransitionModeArgs ==
    (InCall /\ TakesMode) =>
        IF call.mode.kind = "Sudden"
        THEN ~req.bad /\ req.args[2] = ArgString(<<"s", "u", "d", "d", "e", "n">>) /\ req.args[3] = ArgInt(50)
        ELSE IF TooShort(call.mode.d) \/ TooLong(call.mode.d)
        THEN req.bad /\ result.kind = "BadRequest"
        ELSE /\ ~req.bad
             /\ req.args[2] = ArgString(<<"s", "m", "o", "o", "t", "h">>)
             /\ req.args[3] = ArgInt(call.mode.d.ms)
             /\ Len(req.args) = 3

C24_Witness ==
    /\ pc = "write"
    /\ call.f = "set_ct_abx"
    /\ call.mode = Smooth(Duration(0, I32_MAX, 999))
    /\ req.args[3] = ArgInt(I32_MAX)

\* ------------------------------------------------------------------------
\* C25: start_cf and bg_start_cf encode the flow as four integers per
\* segment, in order, joined by commas: the duration in whole milliseconds
\* (however long the duration), the mode code, the value and the brightness;
\* a segment below 50 ms or with brightness above 100 gives BadRequest. The
\* texts are written out by hand for the flows called with.
NoFlowText == <<"BadRequest">>

FlowText(cf) ==
    IF cf = TestFlow THEN <<"1", "0", "0", "0", ",", "2", ",", "2", "7", "0", "0", ",", "1", "0", "0", ",", "5", "0", "0", ",", "1", ",", "2", "5", "5", ",", "1", "0", ",", "5", "0", "0", "0", ",", "7", ",", "0", ",", "0", ",", "5", "0", "0", ",", "2", ",", "5", "0", "0", "0", ",", "1">>
    ELSE IF cf = ColorFlow(0, "Recover", <<>>) THEN <<>>
    ELSE IF cf = ColorFlow(1, "Stay", <<FlowSleep(Duration(2, 5, 0))>>)
         THEN <<"4", "2", "9", "4", "9", "6", "7", "3", "0", "1", ",", "7", ",", "0", ",", "0">>
    ELSE IF cf = ColorFlow(1, "Stay", <<FlowSleep(Duration(1, I32_MAX, 0))>>)
         THEN <<"4", "2", "9", "4", "9", "6", "7", "2", "9", "5", ",", "7", ",", "0", ",", "0">>
    ELSE NoFlowText

C25_FlowEncoding ==
    (InCall /\ call.f \in {"start_cf", "bg_start_cf"}) =>
        IF FlowText(call.cf) = NoFlowText
        THEN req.bad /\ result.kind = "BadRequest"
        ELSE /\ ~req.bad
             /\ Len(req.args) = 3
             /\ req.args[1] = ArgInt(call.cf.count)
             /\ req.args[3] = ArgString(FlowText(call.cf))

\* ------------------------------------------------------------------------
\* C26: the support set of the bulb parsed is the set of methods whose wire
\* name is one of the space-separated tokens of the support line: a token that
\* is a wire name adds the method create_message encodes with that name, any
\* other token adds nothing, and the 35 methods have 35 different wire names.
\* The wire names and the tokens of each support line are written out by hand.
WireNames ==
    <<<<"GetProp", <<"g", "e", "t", "_", "p", "r", "o", "p">>>>,
      <<"SetDefault", <<"s", "e", "t", "_", "d", "e", "f", "a", "u", "l", "t">>>>,
      <<"SetPower", <<"s", "e", "t", "_", "p", "o", "w", "e", "r">>>>,
      <<"Toggle", <<"t", "o", "g", "g", "l", "e">>>>,
      <<"SetBright", <<"s", "e", "t", "_", "b", "r", "i", "g", "h", "t">>>>,
      <<"StartCf", <<"s", "t", "a", "r", "t", "_", "c", "f">>>>,
      <<"StopCf", <<"s", "t", "o", "p", "_", "c", "f">>>>,
      <<"SetScene", <<"s", "e", "t", "_", "s", "c", "e", "n", "e">>>>,
      <<"CronAdd", <<"c", "r", "o", "n", "_", "a", "d", "d">>>>,
      <<"CronGet", <<"c", "r", "o", "n", "_", "g", "e", "t">>>>,
      <<"CronDel", <<"c", "r", "o", "n", "_", "d", "e", "l">>>>,
      <<"SetCtAbx", <<"s", "e", "t", "_", "c", "t", "_", "a", "b", "x">>>>,
      <<"SetRgb", <<"s", "e", "t", "_", "r", "g", "b">>>>,
      <<"SetHsv", <<"s", "e", "t", "_", "h", "s", "v">>>>,
      <<"SetAdjust", <<"s", "e", "t", "_", "a", "d", "j", "u", "s", "t">>>>,
      <<"SetMusic", <<"s", "e", "t", "_", "m", "u", "s", "i", "c">>>>,
      <<"SetName", <<"s", "e", "t", "_", "n", "a", "m", "e">>>>,
      <<"AdjustBright", <<"a", "d", "j", "u", "s", "t", "_", "b", "r", "i", "g", "h", "t">>>>,
      <<"AdjustCt", <<"a", "d", "j", "u", "s", "t", "_", "c", "t">>>>,
      <<"AdjustColor", <<"a", "d", "j", "u", "s", "t", "_", "c", "o", "l", "o", "r">>>>,
      <<"BgSetRgb", <<"b", "g", "_", "s", "e", "t", "_", "r", "g", "b">>>>,
      <<"BgSetHsv", <<"b", "g", "_", "s", "e", "t", "_", "h", "s", "v">>>>,
      <<"BgSetCtAbx", <<"b", "g", "_", "s", "e", "t", "_", "c", "t", "_", "a", "b", "x">>>>,
      <<"BgStartCf", <<"b", "g", "_", "s", "t", "a", "r", "t", "_", "c", "f">>>>,
      <<"BgStopCf", <<"b", "g", "_", "s", "t", "o", "p", "_", "c", "f">>>>,
      <<"BgSetScene", <<"b", "g", "_", "s", "e", "t", "_", "s", "c", "e", "n", "e">>>>,
      <<"BgSetDefault", <<"b", "g", "_", "s", "e", "t", "_", "d", "e", "f", "a", "u", "l", "t">>>>,
      <<"BgSetBright", <<"b", "g", "_", "s", "e", "t", "_", "b", "r", "i", "g", "h", "t">>>>,
      <<"BgSetAdjust", <<"b", "g", "_", "s", "e", "t", "_", "a", "d", "j", "u", "s", "t">>>>,
      <<"BgToggle", <<"b", "g", "_", "t", "o", "g", "g", "l", "e">>>>,
      <<"BgAdjustBright", <<"b", "g", "_", "a", "d", "j", "u", "s", "t", "_", "b", "r", "i", "g", "h", "t">>>>,
      <<"BgAdjustCt", <<"b", "g", "_", "a", "d", "j", "u", "s", "t", "_", "c", "t">>>>,
      <<"BgAdjustColor", <<"b", "g", "_", "a", "d", "j", "u", "s", "t", "_", "c", "o", "l", "o", "r">>>>,
      <<"DevToggle", <<"d", "e", "v", "_", "t", "o", "g", "g", "l", "e">>>>,
      <<"BgSetPower", <<"b", "g", "_", "s", "e", "t", "_", "p", "o", "w", "e", "r">>>>>>

SupportTokens ==
    <<<<<<"g", "e", "t", "_", "p", "r", "o", "p">>, <<"t", "o", "g", "g", "l", "e">>>>,
      <<>>,
      <<<<"s", "i", "n", "g">>, <<"d", "a", "n", "c", "e">>>>,
      <<<<"g", "e", "t", "_", "p", "r", "o", "p">>, <<"s", "e", "t", "_", "d", "e", "f", "a", "u", "l", "t">>, <<"s", "e", "t", "_", "p", "o", "w", "e", "r">>, <<"t", "o", "g", "g", "l", "e">>, <<"s", "e", "t", "_", "b", "r", "i", "g", "h", "t">>, <<"s", "t", "a", "r", "t", "_", "c", "f">>, <<"s", "t", "o", "p", "_", "c", "f">>, <<"s", "e", "t", "_", "s", "c", "e", "n", "e">>, <<"c", "r", "o", "n", "_", "a", "d", "d">>, <<"c", "r", "o", "n", "_", "g", "e", "t">>, <<"c", "r", "o", "n", "_", "d", "e", "l">>, <<"s", "e", "t", "_", "c", "t", "_", "a", "b", "x">>, <<"s", "e", "t", "_", "r", "g", "b">>>>,
      <<<<"g", "e", "t", "_", "p", "r", "o", "p">>, <<"b", "o", "g", "u", "s">>, <<"t", "o", "g", "g", "l", "e">>>>,
      <<<<"t", "o", "g", "g", "l", "e">>, <<"t", "o", "g", "g", "l", "e">>>>,
      <<<<"t", "o", "g", "g", "l", "e">>, <<>>, <<"s", "e", "t", "_", "r", "g", "b">>>>,
      <<<<"T", "o", "g", "g", "l", "e">>, <<"s", "e", "t", "_", "r", "g", "b", ",">>>>,
      <<<<>>, <<"s", "e", "t", "_", "n", "a", "m", "e">>, <<>>>>,
      <<<<"g", "e", "t", "_", "p", "r", "o", "p">>>>,
      <<<<"s", "e", "t", "_", "d", "e", "f", "a", "u", "l", "t">>>>,
      <<<<"s", "e", "t", "_", "p", "o", "w", "e", "r">>>>,
      <<<<"t", "o", "g", "g", "l", "e">>>>,
      <<<<"s", "e", "t", "_", "b", "r", "i", "g", "h", "t">>>>,
      <<<<"s", "t", "a", "r", "t", "_", "c", "f">>>>,
      <<<<"s", "t", "o", "p", "_", "c", "f">>>>,
      <<<<"s", "e", "t", "_", "s", "c", "e", "n", "e">>>>,
      <<<<"c", "r", "o", "n", "_", "a", "d", "d">>>>,
      <<<<"c", "r", "o", "n", "_", "g", "e", "t">>>>,
      <<<<"c", "r", "o", "n", "_", "d", "e", "l">>>>,
      <<<<"s", "e", "t", "_", "c", "t", "_", "a", "b", "x">>>>,
      <<<<"s", "e", "t", "_", "r", "g", "b">>>>,
      <<<<"s", "e", "t", "_", "h", "s", "v">>>>,
      <<<<"s", "e", "t", "_", "a", "d", "j", "u", "s", "t">>>>,
      <<<<"s", "e", "t", "_", "m", "u", "s", "i", "c">>>>,
      <<<<"s", "e", "t", "_", "n", "a", "m", "e">>>>,
      <<<<"a", "d", "j", "u", "s", "t", "_", "b", "r", "i", "g", "h", "t">>>>,
      <<<<"a", "d", "j", "u", "s", "t", "_", "c", "t">>>>,
      <<<<"a", "d", "j", "u", "s", "t", "_", "c", "o", "l", "o", "r">>>>,
      <<<<"b", "g", "_", "s", "e", "t", "_", "r", "g", "b">>>>,
      <<<<"b", "g", "_", "s", "e", "t", "_", "h", "s", "v">>>>,
      <<<<"b", "g", "_", "s", "e", "t", "_", "c", "t", "_", "a", "b", "x">>>>,
      <<<<"b", "g", "_", "s", "t", "a", "r", "t", "_", "c", "f">>>>,
      <<<<"b", "g", "_", "s", "t", "o", "p", "_", "c", "f">>>>,
      <<<<"b", "g", "_", "s", "e", "t", "_", "s", "c", "e", "n", "e">>>>,
      <<<<"b", "g", "_", "s", "e", "t", "_", "d", "e", "f", "a", "u", "l", "t">>>>,
      <<<<"b", "g", "_", "s", "e", "t", "_", "b", "r", "i", "g", "h", "t">>>>,
      <<<<"b", "g", "_", "s", "e", "t", "_", "a", "d", "j", "u", "s", "t">>>>,
      <<<<"b", "g", "_", "t", "o", "g", "g", "l", "e">>>>,
      <<<<"b", "g", "_", "a", "d", "j", "u", "s", "t", "_", "b", "r", "i", "g", "h", "t">>>>,
      <<<<"b", "g", "_", "a", "d", "j", "u", "s", "t", "_", "c", "t">>>>,
      <<<<"b", "g", "_", "a", "d", "j", "u", "s", "t", "_", "c", "o", "l", "o", "r">>>>,
      <<<<"d", "e", "v", "_", "t", "o", "g", "g", "l", "e">>>>,
      <<<<"b", "g", "_", "s", "e", "t", "_", "p", "o", "w", "e", "r">>>>>>

NamedBy(tokens) ==
    {WireNames[k][1] : k \in {j \in 1..Len(WireNames) :
                                \E i \in 1..Len(tokens) : tokens[i] = WireNames[j][2]}}

C26_SupportIsNamedMethods ==
    /\ Len(WireNames) = 35
    /\ Cardinality(Methods) = 35
    /\ {WireNames[k][1] : k \in 1..Len(WireNames)} = Methods
    /\ \A j, k \in 1..Len(WireNames) : WireNames[j][2] = WireNames[k][2] => j = k
    /\ \A k \in 1..Len(WireNames) : MethodStr(WireNames[k][1]) = WireNames[k][2]
    /\ (announced # <<>> /\ parsed_bulb.some) =>
            parsed_bulb.v.support = NamedBy(SupportTokens[announced[5]])

C26_Witness ==
    /\ announced = [AllFirst EXCEPT ![5] = 5]
    /\ parsed_bulb.some
    /\ parsed_bulb.v.support = {"GetProp", "Toggle"}

\* ------------------------------------------------------------------------
\* C27: every bulb Bulb::parse returns has a brightness from 0 to 100.
C27_BrightnessInRange ==
    (announced # <<>> /\ parsed_bulb.some) => parsed_bulb.v.bright \in 0..100

\* ------------------------------------------------------------------------
\* C28: an RGB value turned into its integer and back is the same value, the
\* integer is r*65536 + g*256 + b and is at most 0xFFFFFF; an integer from 0
\* to 0xFFFFFF turned into an RGB value and back is the same integer.
Weighted(rgb) == rgb.r * 65536 + rgb.g * 256 + rgb.b
C28_RGBRoundTrip ==
    /\ converted.from = "RGB" =>
        /\ converted.back = converted.rgb
        /\ converted.int = U32(0, Weighted(converted.rgb))
        /\ converted.int.lo \in 0..MaxRGBInt
    /\ (converted.from = "u32" /\ converted.int.hi = 0 /\ converted.int.lo <= MaxRGBInt) =>
        converted.back = converted.int
C28_Witness ==
    /\ converted.from = "RGB"
    /\ converted.rgb = RGB(1, 2, 255)
    /\ converted.int = U32(0, 66303)
    /\ converted.back = RGB(1, 2, 255)

\* ------------------------------------------------------------------------
\* C29: a bulb added by the search is parsed from the bytes of the one
\* datagram just received: found_bulbs after a receive is what it would be had
\* the datagram been stored in a buffer of zeros, and a receive of no bytes
\* adds nothing.
FromOneDatagram ==
    nRecv' = nRecv + 1 =>
        /\ found_bulbs' = push_if_new(found_bulbs, AloneInBuffer(dgram'))
        /\ dgram' = <<>> => found_bulbs' = found_bulbs
C29_EachFromOneDatagram == [][FromOneDatagram]_searchVars

\* ------------------------------------------------------------------------
\* C30: for every line "Key: Value" of the announcement the header map holds
\* under Key the whole text after the first ": " of such a line, also when
\* that text has ": " in it; with several lines of one key it holds the value
\* of one of them, whole.
IsSepAt(l, i) == i < Len(l) /\ l[i] = ":" /\ l[i + 1] = " "
HasSep(l) == \E i \in 1..Len(l) : IsSepAt(l, i)
FirstSep(l) == CHOOSE i \in 1..Len(l) : IsSepAt(l, i) /\ \A j \in 1..(i - 1) : ~IsSepAt(l, j)
KeyOf(l) == SubSeq(l, 1, FirstSep(l) - 1)
ValueOf(l) == SubSeq(l, FirstSep(l) + 2, Len(l))
ValuesKept(map, lines) ==
    \A k \in 1..Len(lines) : HasSep(lines[k]) =>
        /\ get(map, KeyOf(lines[k])).some
        /\ \E j \in 1..Len(lines) :
              /\ HasSep(lines[j])
              /\ KeyOf(lines[j]) = KeyOf(lines[k])
              /\ get(map, KeyOf(lines[k])).v = ValueOf(lines[j])
C30_HeaderValuesWhole ==
    announced # <<>> => ValuesKept(header_map, split(search_response_of(announced), <<CR, LF>>))

====
